---- MODULE Spec2Model ----
(***************************************************************************)
(* Admission-controlled transcode-and-deliver pipeline of the video-note   *)
(* bot (src/app/handlers.py, src/app/ffmpeg_utils.py).                     *)
(*                                                                         *)
(* Time is counted in ticks, TicksPerSec ticks to the second, so that the  *)
(* truncation int(busy_until - now) of a float difference is a division    *)
(* that really rounds.  A handler runs atomically from one await to the    *)
(* next (asyncio's cooperative scheduler), so every action below is one    *)
(* such section of the handler.                                            *)
(***************************************************************************)
EXTENDS Integers, Sequences, FiniteSets, TLC

\* ------------------------------------------------------------------ bounds

NumReq == 2          \* handler coroutines that can be in flight together
TicksPerSec == 2     \* clock resolution of the model
Epoch == 1000        \* time.time() when the process starts, in ticks (> 0)

\* ------------------------------------------------------- program constants

processed_ttl_seconds == 180     \* handlers.py:35
groups_ttl_seconds == 300        \* handlers.py:54
per_user_limit_s == 20           \* handlers.py:46 (USER_RATE_LIMIT_SECONDS default)

ReqIds == 1..NumReq
None == "None"

ProcessedTtl == processed_ttl_seconds * TicksPerSec
GroupsTtl == groups_ttl_seconds * TicksPerSec
PerUserLimit == per_user_limit_s * TicksPerSec

\* What the outside world sends in one run: the users, the (chat id, message
\* id) keys and the media-group ids of the updates, the value MAX_CONCURRENCY
\* had at import, and the instants (ticks after Epoch) at which the clock is
\* read: the boundaries of the rate-limit window and of the two TTLs.
GateEnv ==
  [ users |-> {1, 2}, keys |-> {<<1, 1>>}, groups |-> {},
    mc |-> 0, clock |-> {0, 1, PerUserLimit - 1, PerUserLimit} ]

MessageEnv ==
  [ users |-> {1}, keys |-> {<<1, 1>>, <<1, 2>>}, groups |-> {},
    mc |-> 2, clock |-> {0, ProcessedTtl, ProcessedTtl + 1} ]

GroupEnv ==
  [ users |-> {1}, keys |-> {<<1, 1>>, <<1, 2>>}, groups |-> {"g1"},
    mc |-> 2, clock |-> {0, GroupsTtl, GroupsTtl + 1} ]

Environments == {GateEnv, MessageEnv, GroupEnv}

VARIABLES
  env,                 \* the environment of this run
  now,                 \* time.time()
  max_concurrency,     \* _max_concurrency, read once at import
  processed_messages,  \* _processed_messages: (chat, message) -> timestamp
  processed_groups,    \* _processed_groups: media-group id -> timestamp
  user_busy_until,     \* _user_busy_until: user id -> timestamp
  user_locks,          \* _user_locks: user id -> asyncio.Lock
  semaphore,           \* _semaphore._value
  sem_waiters,         \* _semaphore._waiters, FIFO
  req,                 \* the handler coroutines
  job,                 \* one job's way through the handler and the delivery ladder
  conv,                \* one call of convert_to_square_video_note
  build                \* one call of build_ffmpeg_command

admission == << env, now, max_concurrency, processed_messages, processed_groups,
                user_busy_until, user_locks, semaphore, sem_waiters, req >>

vars == << admission, job, conv, build >>

\* ----------------------------------------------------------------- helpers

Max(a, b) == IF a > b THEN a ELSE b

\* dict.get(k, default)
Get(d, k, default) == IF k \in DOMAIN d THEN d[k] ELSE default

\* d[k] = v
Put(d, k, v) == [x \in DOMAIN d \cup {k} |-> IF x = k THEN v ELSE d[x]]

\* a table that is never swept: an entry stays whatever its age
SweepNothing(d, t, ttl) == d

\* a sweep that already drops the entries at exactly the TTL
SweepAtTtl(d, t, ttl) == [x \in {k \in DOMAIN d : ~(t - d[k] >= ttl)} |-> d[x]]

\* the lazy sweep: drop the entries with now - ts > ttl
Sweep(d, t, ttl) == [x \in {k \in DOMAIN d : ~(t - d[k] > ttl)} |-> d[x]]

\* a semaphore built from MAX_CONCURRENCY as it is read, with no floor
CapacityAsRead(mc) == mc

\* asyncio.Semaphore(max(1, _max_concurrency))
Capacity(mc) == Max(1, mc)

NoKey == << >>

\* A handler coroutine: where it stands, its message (user, key, media group,
\* URL or media) while that still matters, and the decision it has reached.
IdleReq == [pc |-> "idle", user |-> 0, key |-> NoKey, group |-> None, url |-> FALSE,
            outcome |-> "none", wait |-> 0, error_recorded |-> FALSE]

\* A job: where it stands in _convert_and_send, the chat's permission, the two
\* flags of _convert_and_send, the errors the sends raised, what was sent and
\* said on the delivery ladder so far; the exception on its way out, how the
\* handler ended, what the counters collaborator was given or refused, and
\* what the handler's except block told the user and recorded; the duration
\* the message declared and the one ffprobe gave, the files on disk and the
\* files the job has ever written
NoJob ==
  [ pc |-> "idle", can_send_vn |-> TRUE, sent_as_note |-> FALSE,
    fallback_reason_forbidden |-> FALSE, note_err |-> "none", video_err |-> "none",
    answer_failed |-> FALSE, sends |-> << >>, said |-> << >>,
    perm |-> "none", raised |-> "none", handler |-> "running",
    counters_failed |-> FALSE, conversion_recorded |-> FALSE,
    error_recorded |-> FALSE, error_said |-> << >>, error_code |-> "none",
    declared |-> << >>, probed |-> << >>, files |-> {}, created |-> {} ]

\* the executor before it is called
NoConv == [ pc |-> "idle" ]

\* build_ffmpeg_command before it is called
NoBuild == [ pc |-> "idle" ]

InitAdmission ==
  /\ env \in Environments
  /\ now = Epoch
  /\ max_concurrency = env.mc
  /\ processed_messages = << >>
  /\ processed_groups = << >>
  /\ user_busy_until = << >>
  /\ user_locks = << >>
  /\ semaphore = Capacity(max_concurrency)
  /\ sem_waiters = << >>
  /\ req = [r \in ReqIds |-> IdleReq]

Init ==
  /\ InitAdmission
  /\ job = NoJob
  /\ conv = NoConv
  /\ build = NoBuild

\* -------------------------------------------------- admission predicates

\* _get_user_lock: the lock of user u, created on first use
GetUserLock(locks, u) ==
  IF u \in DOMAIN locks THEN locks
  ELSE Put(locks, u, [locked |-> FALSE, waiters |-> << >>])

\* asyncio.Lock.acquire returns at once only if the lock is free and nobody waits
LockBusy(lock) == lock.locked \/ lock.waiters # << >>

\* a semaphore that lets one handler too many through
SemaphoreLockedOffByOne(value, waiters) == value < 0 \/ waiters # << >>

\* asyncio.Semaphore.locked()
SemaphoreLocked(value, waiters) == value = 0 \/ waiters # << >>

\* if mgid in _processed_groups
IsDuplicateGroup(pg, g) == g \in DOMAIN pg

\* the TTL boundary taken as already expired
IsDuplicateMessageStrict(pm, key, t) ==
  /\ Get(pm, key, 0) # 0
  /\ t - pm[key] < ProcessedTtl

\* if _processed_messages.get(key) and now - _processed_messages[key] <= ttl
IsDuplicateMessage(pm, key, t) ==
  /\ Get(pm, key, 0) # 0
  /\ t - pm[key] <= ProcessedTtl

\* int(max(user_limit_mb, 0) * 1024 * 1024)
UserLimitBytes(user_limit_mb) == Max(user_limit_mb, 0) * 1024 * 1024

\* a size equal to the maximum taken as over it
OverSizeLimitOrEqual(user_limit_mb, media_size) ==
  /\ user_limit_mb > 0
  /\ media_size # 0
  /\ media_size >= UserLimitBytes(user_limit_mb)

\* if enforce_user_limit and media_size and media_size > user_limit_bytes
OverSizeLimit(user_limit_mb, media_size) ==
  /\ user_limit_mb > 0
  /\ media_size # 0
  /\ media_size > UserLimitBytes(user_limit_mb)

\* if busy_until > now
IsBusy(busy_until, t) == busy_until > t

\* wait_left = int(busy_until - now)
WaitLeft(busy_until, t) == (busy_until - t) \div TicksPerSec

\* the reply reporting the truncated wait itself
ReportedWaitUnclamped(busy_until, t) == WaitLeft(busy_until, t)

\* the wait the reply reports: max(wait_left, 1)
ReportedWait(busy_until, t) == Max(WaitLeft(busy_until, t), 1)

\* the gate stamped with the admission time, the window forgotten
BusyUntilNoWindow(t) == t

\* _user_busy_until[user_id] = now + _per_user_limit_s
BusyUntilAfterAdmit(t) == t + PerUserLimit

\* ------------------------------------------------------------ the handlers

\* the transcode called on the event loop itself
RunsOnEventLoop == FALSE

\* await asyncio.to_thread(convert_to_square_video_note, ...): the transcode
\* runs in a worker thread and the coroutine is suspended meanwhile
RunsInWorkerThread == TRUE

\* the event loop can run a handler: no transcode is occupying it
LoopFree ==
  IF RunsInWorkerThread THEN TRUE ELSE \A q \in ReqIds : req[q].pc # "convert"

\* The exits that call record_error(user, code): the size-limit rejection
\* (line 435) and the except blocks of the two handlers (lines 513, 596).
RecordsError(outcome) ==
  outcome \in {"size_limit", "download_failed", "ffmpeg_missing", "encode_timeout",
               "encode_failed", "sizefix_failed", "delivery_failed"}

\* the handler has reached its decision and returns
Finish(r, outcome) ==
  req' = [req EXCEPT ![r] = [IdleReq EXCEPT !.pc = "done", !.user = req[r].user,
                                            !.outcome = outcome,
                                            !.error_recorded = RecordsError(outcome)]]

\* async with _semaphore: take a unit now, or queue for one
AcquireSemaphore(r, rq) ==
  IF SemaphoreLocked(semaphore, sem_waiters)
  THEN /\ sem_waiters' = Append(sem_waiters, r)
       /\ req' = [req EXCEPT ![r] = [rq EXCEPT !.pc = "wait_sem"]]
       /\ UNCHANGED semaphore
  ELSE /\ semaphore' = semaphore - 1
       /\ req' = [req EXCEPT ![r] = [rq EXCEPT !.pc = "download"]]
       /\ UNCHANGED sem_waiters

\* The body of `async with user_lock`, entered with the lock held (held is the
\* lock map with u's lock taken by r), and what follows it up to the next await.
Gate(r, rq, held) ==
  LET u == rq.user
      busy_until == Get(user_busy_until, u, 0)
  IN IF IsBusy(busy_until, now)
     THEN \* the reply is awaited with the lock held
          /\ user_locks' = held
          /\ req' = [req EXCEPT ![r] =
                       [rq EXCEPT !.pc = "reject_answer", !.outcome = "rate_limited",
                                  !.wait = ReportedWait(busy_until, now)]]
          /\ UNCHANGED << user_busy_until, semaphore, sem_waiters >>
     ELSE /\ user_busy_until' = Put(user_busy_until, u, BusyUntilAfterAdmit(now))
          /\ user_locks' = [held EXCEPT ![u].locked = FALSE]
          /\ AcquireSemaphore(r, rq)

\* async with user_lock, reached by a handler that has not awaited yet
EnterGate(r, rq) ==
  LET u == rq.user
      locks == GetUserLock(user_locks, u)
  IN IF LockBusy(locks[u])
     THEN /\ user_locks' = [locks EXCEPT ![u].waiters = Append(@, r)]
          /\ req' = [req EXCEPT ![r] = [rq EXCEPT !.pc = "wait_lock"]]
          /\ UNCHANGED << user_busy_until, semaphore, sem_waiters >>
     ELSE Gate(r, rq, [locks EXCEPT ![u].locked = TRUE])

UserLimitMbs == {-1, 0, 1}                 \* USER_VIDEO_MAX_MB, read on every call
MediaSizes == {0, 1048576, 1048577}     \* declared file_size, 0 when absent

\* an update reaches the dispatcher: a video / video note / video document
\* (with or without a media group), or a text message holding a URL
Receive(r) ==
  /\ req[r].pc = "idle"
  /\ \A q \in ReqIds : req[q].pc \notin {"arrived", "done"}
  /\ \E u \in env.users, k \in env.keys, g \in env.groups \cup {None}, url \in BOOLEAN :
       /\ url => g = None
       /\ req' = [req EXCEPT ![r] =
                    [IdleReq EXCEPT !.pc = "arrived", !.user = u, !.key = k,
                                    !.group = g, !.url = url]]
  /\ UNCHANGED << build, conv, job, env, now, max_concurrency, processed_messages, processed_groups,
                  user_busy_until, user_locks, semaphore, sem_waiters >>

\* the handler's coroutine is gone
Return(r) ==
  /\ req[r].pc = "done"
  /\ req' = [req EXCEPT ![r] = IdleReq]
  /\ UNCHANGED << build, conv, job, env, now, max_concurrency, processed_messages, processed_groups,
                  user_busy_until, user_locks, semaphore, sem_waiters >>

\* a rejection that takes back what the checks before it have recorded
RolledBackOnReturn(recorded, before) == before

\* `return` at lines 413 and 441: the tables stay as the checks before have
\* left them (recorded), not as the handler found them (before)
KeptOnReturn(recorded, before) == recorded

\* the size check run before the two dedupe checks
AdmissionDecisionSizeFirst(dupGroup, dupMsg, tooBig) ==
  IF tooBig THEN "size_limit"
  ELSE IF dupGroup THEN "dup_group"
  ELSE IF dupMsg THEN "dup_msg"
  ELSE "gate"

\* The chain of checks, each returning at once: lines 390, 412, 433, then the gate
AdmissionDecision(dupGroup, dupMsg, tooBig) ==
  IF dupGroup THEN "dup_group"
  ELSE IF dupMsg THEN "dup_msg"
  ELSE IF tooBig THEN "size_limit"
  ELSE "gate"

\* _process_and_reply_with_video_note from its first line to its first await,
\* for a message whose declared size is media_size while USER_VIDEO_MAX_MB is
\* user_limit_mb
HandleMediaWith(r, user_limit_mb, media_size) ==
  /\ LoopFree
  /\ req[r].pc = "arrived"
  /\ ~req[r].url
  /\ LET g == req[r].group
         key == req[r].key
         rq == [req[r] EXCEPT !.key = NoKey, !.group = None, !.url = FALSE]
         pg0 == IF g # None THEN Sweep(processed_groups, now, GroupsTtl)
                            ELSE processed_groups
         pg1 == IF g # None THEN Put(pg0, g, now) ELSE pg0
         pm0 == Sweep(processed_messages, now, ProcessedTtl)
         pm1 == Put(pm0, key, now)
         decision == AdmissionDecision(g # None /\ IsDuplicateGroup(pg0, g),
                                       IsDuplicateMessage(pm0, key, now),
                                       OverSizeLimit(user_limit_mb, media_size))
     IN CASE decision = "dup_group" ->
               /\ processed_groups' = pg0
               /\ Finish(r, "dup_group")
               /\ UNCHANGED << processed_messages, user_busy_until, user_locks,
                               semaphore, sem_waiters >>
          [] decision = "dup_msg" ->
               /\ processed_groups' = KeptOnReturn(pg1, pg0)
               /\ processed_messages' = pm0
               /\ Finish(r, "dup_msg")
               /\ UNCHANGED << user_busy_until, user_locks, semaphore, sem_waiters >>
          [] decision = "size_limit" ->
               /\ processed_groups' = KeptOnReturn(pg1, pg0)
               /\ processed_messages' = KeptOnReturn(pm1, pm0)
               /\ Finish(r, "size_limit")
               /\ UNCHANGED << user_busy_until, user_locks, semaphore, sem_waiters >>
          [] OTHER ->
               /\ processed_groups' = pg1
               /\ processed_messages' = pm1
               /\ EnterGate(r, rq)
  /\ UNCHANGED << build, conv, job, env, now, max_concurrency >>

HandleMedia(r) ==
  \E user_limit_mb \in UserLimitMbs, media_size \in MediaSizes :
    HandleMediaWith(r, user_limit_mb, media_size)

\* handle_url_text from its first line to its first await
HandleUrl(r) ==
  /\ LoopFree
  /\ req[r].pc = "arrived"
  /\ req[r].url
  /\ EnterGate(r, [req[r] EXCEPT !.key = NoKey, !.group = None, !.url = FALSE])
  /\ UNCHANGED << build, conv, job, env, now, max_concurrency, processed_messages, processed_groups >>

\* a handler that waited for its user's lock gets it
LockAcquired(r) ==
  /\ LoopFree
  /\ req[r].pc = "wait_lock"
  /\ LET u == req[r].user IN
       /\ ~user_locks[u].locked
       /\ Head(user_locks[u].waiters) = r
       /\ Gate(r, req[r], [user_locks EXCEPT ![u] =
                             [locked |-> TRUE, waiters |-> Tail(@.waiters)]])
  /\ UNCHANGED << build, conv, job, env, now, max_concurrency, processed_messages, processed_groups >>

\* the rate-limit reply is sent: leave `async with user_lock` and return
RejectAnswered(r) ==
  /\ LoopFree
  /\ req[r].pc = "reject_answer"
  /\ user_locks' = [user_locks EXCEPT ![req[r].user].locked = FALSE]
  /\ req' = [req EXCEPT ![r] = IdleReq]
  /\ UNCHANGED << build, conv, job, env, now, max_concurrency, processed_messages, processed_groups,
                  user_busy_until, semaphore, sem_waiters >>

\* a handler that waited for a concurrency unit gets one
SemAcquired(r) ==
  /\ LoopFree
  /\ req[r].pc = "wait_sem"
  /\ semaphore > 0
  /\ Head(sem_waiters) = r
  /\ semaphore' = semaphore - 1
  /\ sem_waiters' = Tail(sem_waiters)
  /\ req' = [req EXCEPT ![r].pc = "download"]
  /\ UNCHANGED << build, conv, job, env, now, max_concurrency, processed_messages, processed_groups,
                  user_busy_until, user_locks >>

\* ------------------------------------------------- inside the permit section

max_duration_s == 60     \* MAX_VIDEO_DURATION_SECONDS default

\* An Optional number is << >> (None) or << n >>.
Unknown == << >>
DeclaredDurations == {Unknown, <<60>>, <<61>>}        \* message.video.duration, seconds
ProbedDurations == {Unknown, <<0>>, <<609>>, <<610>>} \* ffprobe's answer, tenths of a second

\* if duration is None: probe; if duration_probe: duration = int(duration_probe)
DurationAfterProbe(duration, probe) ==
  IF duration # Unknown THEN duration
  ELSE IF probe # Unknown /\ probe[1] # 0 THEN << probe[1] \div 10 >>
  ELSE Unknown

\* if duration is not None and duration > max_duration_s
TooLong(duration) == duration # Unknown /\ duration[1] > max_duration_s

\* the unit given back on the successful path only
ReleaseOnSuccessOnly(r, outcome) ==
  /\ semaphore' = IF outcome = "delivered" THEN semaphore + 1 ELSE semaphore
  /\ Finish(r, outcome)
  /\ UNCHANGED << build, conv, job, env, now, max_concurrency, processed_messages, processed_groups,
                  user_busy_until, user_locks, sem_waiters >>

\* leaving `async with _semaphore`: the unit goes back, the handler returns
ReleaseAndFinish(r, outcome) ==
  /\ semaphore' = semaphore + 1
  /\ Finish(r, outcome)
  /\ UNCHANGED << build, conv, job, env, now, max_concurrency, processed_messages, processed_groups,
                  user_busy_until, user_locks, sem_waiters >>

\* What the section from the start message to the call of
\* convert_to_square_video_note comes to. A media handler checks the declared
\* (or, for a document, probed) duration itself and _convert_and_send probes
\* once more if it is still unknown; the URL handler leaves the check to
\* _convert_and_send.
DownloadOutcome(url, ok, declared, probe1, probe2) ==
  LET d0 == IF url THEN Unknown ELSE declared
      d1 == IF url THEN Unknown ELSE DurationAfterProbe(d0, probe1)
      d2 == DurationAfterProbe(d1, probe2)
  IN IF ~ok THEN "download_failed"
     ELSE IF TooLong(d1) \/ TooLong(d2) THEN "duration"
     ELSE "convert"

\* Past the gate the two handlers differ in nothing else that the shared state
\* sees, so which of them runs this section is one of the inputs drawn here.
DownloadOutcomes ==
  { DownloadOutcome(url, ok, declared, probe1, probe2) :
      url \in BOOLEAN, ok \in BOOLEAN, declared \in DeclaredDurations,
      probe1 \in ProbedDurations, probe2 \in ProbedDurations }

\* the start message, the download and the duration check
Download(r) ==
  /\ LoopFree
  /\ req[r].pc = "download"
  /\ \E out \in DownloadOutcomes :
       IF out = "convert"
       THEN /\ req' = [req EXCEPT ![r].pc = "convert"]
            /\ UNCHANGED << build, conv, job, env, now, max_concurrency, processed_messages,
                            processed_groups, user_busy_until, user_locks,
                            semaphore, sem_waiters >>
       ELSE ReleaseAndFinish(r, out)

ConvertResults ==
  {"ok", "ffmpeg_missing", "encode_timeout", "encode_failed", "sizefix_failed"}

\* asyncio.to_thread(convert_to_square_video_note, ...) returns or raises
ConvertDone(r) ==
  /\ req[r].pc = "convert"
  /\ \E res \in ConvertResults :
       IF res = "ok"
       THEN /\ req' = [req EXCEPT ![r].pc = "deliver"]
            /\ UNCHANGED << build, conv, job, env, now, max_concurrency, processed_messages,
                            processed_groups, user_busy_until, user_locks,
                            semaphore, sem_waiters >>
       ELSE ReleaseAndFinish(r, res)

DeliverResults == {"delivered", "delivery_failed"}

\* the delivery ladder ends: something was sent, or an error propagated
DeliverDone(r) ==
  /\ LoopFree
  /\ req[r].pc = "deliver"
  /\ \E res \in DeliverResults : ReleaseAndFinish(r, res)

\* ------------------------------------------------------ the delivery ladder

\* Texts are sequences of characters, so that `in` is a real substring search.
P_too_long ==
  << "t", "o", "o", " ", "l", "o", "n", "g" >>

P_longer_than ==
  << "l", "o", "n", "g", "e", "r", " ", "t", "h", "a", "n" >>

P_video_note ==
  << "v", "i", "d", "e", "o", "_", "n", "o", "t", "e" >>

P_long ==
  << "l", "o", "n", "g" >>

P_forbidden ==
  << "f", "o", "r", "b", "i", "d", "d", "e", "n" >>

P_voice ==
  << "v", "o", "i", "c", "e" >>

P_video ==
  << "v", "i", "d", "e", "o" >>

P_voice_messages_forbidden ==
  << "v", "o", "i", "c", "e", " ", "m", "e", "s", "s", "a", "g", "e", "s", " ", "f",
  "o", "r", "b", "i", "d", "d", "e", "n" >>

P_video_messages_forbidden ==
  << "v", "i", "d", "e", "o", " ", "m", "e", "s", "s", "a", "g", "e", "s", " ", "f",
  "o", "r", "b", "i", "d", "d", "e", "n" >>

\* str(send_err) of the errors the transport raises in the model
ErrorTexts ==
  [ too_long |->
      << "B", "a", "d", " ", "R", "e", "q", "u", "e", "s", "t", ":", " ", "v", "i",
      "d", "e", "o", " ", "i", "s", " ", "t", "o", "o", " ", "l", "o", "n", "g" >>,
    longer_than |->
      << "B", "a", "d", " ", "R", "e", "q", "u", "e", "s", "t", ":", " ", "l", "o",
      "n", "g", "e", "r", " ", "t", "h", "a", "n", " ", "6", "0", " ", "s" >>,
    video_note_long |->
      << "V", "I", "D", "E", "O", "_", "N", "O", "T", "E", "_", "L", "E", "N", "G",
      "T", "H", "_", "L", "O", "N", "G" >>,
    forbidden_too_long |->
      << "F", "o", "r", "b", "i", "d", "d", "e", "n", ":", " ", "v", "i", "d", "e",
      "o", " ", "t", "o", "o", " ", "l", "o", "n", "g" >>,
    voice_forbidden |->
      << "B", "a", "d", " ", "R", "e", "q", "u", "e", "s", "t", ":", " ", "V", "O",
      "I", "C", "E", "_", "M", "E", "S", "S", "A", "G", "E", "S", "_", "F", "O", "R",
      "B", "I", "D", "D", "E", "N" >>,
    forbidden_video |->
      << "F", "o", "r", "b", "i", "d", "d", "e", "n", ":", " ", "v", "i", "d", "e",
      "o", " ", "m", "e", "s", "s", "a", "g", "e", "s", " ", "o", "f", "f" >>,
    forbidden_other |->
      << "F", "o", "r", "b", "i", "d", "d", "e", "n", ":", " ", "b", "o", "t", " ",
      "w", "a", "s", " ", "b", "l", "o", "c", "k", "e", "d" >>,
    too_big |->
      << "B", "a", "d", " ", "R", "e", "q", "u", "e", "s", "t", ":", " ", "f", "i",
      "l", "e", " ", "i", "s", " ", "t", "o", "o", " ", "b", "i", "g" >>,
    empty |->
      <<  >> ]

ErrorIds == DOMAIN ErrorTexts

\* str.lower(), one character; a Cyrillic letter is written as its code point
LowerChar(c) ==
  CASE c = "A" -> "a"
    [] c = "B" -> "b"
    [] c = "C" -> "c"
    [] c = "D" -> "d"
    [] c = "E" -> "e"
    [] c = "F" -> "f"
    [] c = "G" -> "g"
    [] c = "H" -> "h"
    [] c = "I" -> "i"
    [] c = "J" -> "j"
    [] c = "K" -> "k"
    [] c = "L" -> "l"
    [] c = "M" -> "m"
    [] c = "N" -> "n"
    [] c = "O" -> "o"
    [] c = "P" -> "p"
    [] c = "Q" -> "q"
    [] c = "R" -> "r"
    [] c = "S" -> "s"
    [] c = "T" -> "t"
    [] c = "U" -> "u"
    [] c = "V" -> "v"
    [] c = "W" -> "w"
    [] c = "X" -> "x"
    [] c = "Y" -> "y"
    [] c = "Z" -> "z"
    [] c = "U+041E" -> "U+043E"
    [] c = "U+0423" -> "U+0443"
    [] c = "U+041D" -> "U+043D"
    [] OTHER -> c

\* (str(send_err) or "").lower()
Lower(text) == [i \in 1..Len(text) |-> LowerChar(text[i])]

\* pat in text
Contains(text, pat) ==
  \E i \in 1..(Len(text) - Len(pat) + 1) : SubSeq(text, i, i + Len(pat) - 1) = pat

\* the "too long" class without its third alternative
IsTooLongTwoPatterns(err_text) ==
  Contains(err_text, P_too_long) \/ Contains(err_text, P_longer_than)

\* "too long" in err_text or "longer than" in err_text
\*   or "video_note" in err_text and "long" in err_text
IsTooLong(err_text) ==
  \/ Contains(err_text, P_too_long)
  \/ Contains(err_text, P_longer_than)
  \/ (Contains(err_text, P_video_note) /\ Contains(err_text, P_long))

\* the forbidden class taken for the voice texts only
IsForbiddenVoiceOnly(err_text) ==
  Contains(err_text, P_forbidden) /\ Contains(err_text, P_voice)

\* ("forbidden" in err_text and ("voice" in err_text or "video" in err_text))
\*   or "voice messages forbidden" in err_text or "video messages forbidden" in err_text
IsForbiddenVoiceVideo(err_text) ==
  \/ (Contains(err_text, P_forbidden)
        /\ (Contains(err_text, P_voice) \/ Contains(err_text, P_video)))
  \/ Contains(err_text, P_voice_messages_forbidden)
  \/ Contains(err_text, P_video_messages_forbidden)

\* every forbidden text taken for a forbidden video
IsForbiddenAnything(err2) == Contains(err2, P_forbidden)

\* "forbidden" in err2 and "video" in err2
IsForbiddenVideo(err2) == Contains(err2, P_forbidden) /\ Contains(err2, P_video)

\* what a send can come to: it succeeds, it raises one of the three Telegram
\* error types with one of the texts, or it raises something else
SendResults == {"ok", "other_exception"} \cup ErrorIds

\* what get_chat can come to: permissions.can_send_video_notes is True, False
\* or None (or there are no permissions), or the query raises
Permissions == {"allowed", "denied", "unset", "error"}

\* the handler has recognised the media and is about to count its kind
\* notes taken to be allowed only when the chat says so
CanSendVnOnlyIfAllowed(perm) == perm = "allowed"

\* can_send_vn stays True unless can_send_video_notes is False
CanSendVn(perm) == perm # "denied"

StartJob == [NoJob EXCEPT !.pc = "record_kind"]

\* A path is its directory, the stem of its name and the suffix.
\* Path.with_suffix(suffix): the same directory, the same stem
WithSuffix(path, suffix) == [path EXCEPT !.suffix = suffix]

\* TemporaryDirectory(prefix="videonote_"), and the three paths made in it
TmpDir == "videonote_"
SourcePathHint == [dir |-> TmpDir, stem |-> "input", suffix |-> ""]
SrcPath == WithSuffix(SourcePathHint, ".mp4")
OutPath == [dir |-> TmpDir, stem |-> "output", suffix |-> ".mp4"]
SizeFixPath == WithSuffix(OutPath, ".sizefix.mp4")

\* a directory that is left as it is on exit
TemporaryDirectoryKept(files) == files

\* leaving `with TemporaryDirectory(...)`: the directory goes with all in it
TemporaryDirectoryExit(files) == { f \in files : f.dir # TmpDir }

\* a file is written: it is on disk, and it has been written
Written(j, paths) == [j EXCEPT !.files = @ \cup paths, !.created = @ \cup paths]

\* an exception leaves _convert_and_send, and the `with` block around it
Raise(j, what) ==
  [j EXCEPT !.raised = what, !.pc = "failed", !.files = TemporaryDirectoryExit(@)]

\* await message.answer(text): the text reaches the user, or the call raises
\* and the exception leaves _convert_and_send and the `with` block
Answer(j, text, ok) ==
  IF ok
  THEN [j EXCEPT !.said = Append(@, text)]
  ELSE [j EXCEPT !.answer_failed = TRUE, !.raised = "answer", !.pc = "failed",
                 !.files = TemporaryDirectoryExit(@)]

\* the handler returns from inside the `with` block
ReturnFrom(j, pc) ==
  [j EXCEPT !.pc = pc, !.handler = "returned", !.files = TemporaryDirectoryExit(@)]

\* lines 402-404: record_kind, outside every try block: what it raises leaves
\* the handler before the dedupe tables, the gate and the semaphore are reached
RecordKind ==
  /\ job.pc = "record_kind"
  /\ \E ok \in BOOLEAN :
       job' = IF ok
              THEN [job EXCEPT !.pc = "download"]
              ELSE [job EXCEPT !.pc = "stopped", !.raised = "counters",
                               !.counters_failed = TRUE, !.handler = "escaped"]
  /\ UNCHANGED << admission, conv, build >>

\* what bot.download can come to: the file is there, Telegram refuses it as
\* too big before anything is written, or the transfer breaks
DownloadResults == {"ok", "too_big", "other_exception"}

\* lines 457-480: the declared duration is read, the start message sent, the
\* temporary directory made and the source downloaded into it; a transfer
\* that breaks may leave a part of the file
DownloadSource ==
  /\ job.pc = "download"
  /\ \E declared \in DeclaredDurations, ans_ok \in BOOLEAN,
        res \in DownloadResults, partial \in BOOLEAN :
       LET j == [job EXCEPT !.declared = declared]
       IN job' =
            IF ~ans_ok THEN Answer(j, "started", FALSE)
            ELSE IF res = "ok"
            THEN Written([j EXCEPT !.pc = "check_duration"], {SrcPath})
            ELSE IF res = "other_exception" /\ partial
            THEN Raise(Written(j, {SrcPath}), res)
            ELSE Raise(j, res)
  /\ UNCHANGED << admission, conv, build >>

\* the answer of the first probe that gives a usable duration
FirstUsable(probe1, probe2) ==
  IF probe1 # Unknown /\ probe1[1] # 0 THEN probe1 ELSE probe2

\* lines 481-491 and 271-285: a duration the message did not declare is
\* probed, by the handler and, if still unknown, once more by
\* _convert_and_send; a source over the ceiling is answered with the
\* duration and the ceiling, and the handler returns
CheckDuration ==
  /\ job.pc = "check_duration"
  /\ \E probe1 \in ProbedDurations, probe2 \in ProbedDurations, ok \in BOOLEAN :
       LET d1 == DurationAfterProbe(job.declared, probe1)
           d2 == DurationAfterProbe(d1, probe2)
           j == IF job.declared # Unknown THEN job
                ELSE [job EXCEPT !.probed = FirstUsable(probe1, probe2)]
       IN job' =
            IF TooLong(d1) \/ TooLong(d2)
            THEN LET a == Answer(j, "duration_over_ceiling", ok)
                 IN IF ok THEN ReturnFrom(a, "rejected") ELSE a
            ELSE [j EXCEPT !.pc = "convert"]
  /\ UNCHANGED << admission, conv, build >>

\* the files convert_to_square_video_note has written when it ends with res
\* (fixed: the size-fix pass ran; partial: an encoder that failed or was
\* killed left its output behind): the artifact, and the scratch file of the
\* size-fix pass, which is renamed onto the artifact when the pass succeeds
ConvertWrites(res, fixed, partial) ==
  CASE res = "ok" -> IF fixed THEN {OutPath, SizeFixPath} ELSE {OutPath}
    [] res = "sizefix_failed" -> IF partial THEN {OutPath, SizeFixPath} ELSE {OutPath}
    [] res \in {"encode_timeout", "encode_failed"} -> IF partial THEN {OutPath} ELSE {}
    [] OTHER -> {}

\* lines 286-298: the transcode in its thread; what it raises is not caught in
\* _convert_and_send; after it the progress message
Convert ==
  /\ job.pc = "convert"
  /\ \E res \in ConvertResults, ok \in BOOLEAN, fixed \in BOOLEAN, partial \in BOOLEAN :
       LET w == ConvertWrites(res, fixed, partial)
           j == [job EXCEPT !.files = (@ \cup w) \ (IF res = "ok" THEN {SizeFixPath} ELSE {}),
                            !.created = @ \cup w]
       IN job' = IF res # "ok" THEN Raise(j, res)
                 ELSE IF ok THEN [j EXCEPT !.pc = "get_chat"]
                 ELSE Answer(j, "here_it_is", FALSE)
  /\ UNCHANGED << admission, conv, build >>

\* if not sent_as_note: the explanation, when the notes are forbidden, and on
\* to send_video
Fallback(j, ok) ==
  IF (~j.can_send_vn) \/ j.fallback_reason_forbidden
  THEN Answer([j EXCEPT !.pc = "send_video"], "notes_forbidden", ok)
  ELSE [j EXCEPT !.pc = "send_video"]

\* lines 299-312: the chat's permissions decide where the ladder starts
GetChat ==
  /\ job.pc = "get_chat"
  /\ \E perm \in Permissions, ok \in BOOLEAN :
       LET j == [job EXCEPT !.can_send_vn = CanSendVn(perm), !.perm = perm]
       IN job' = IF j.can_send_vn
                 THEN [j EXCEPT !.pc = "send_note"]
                 ELSE Fallback(j, ok)
  /\ UNCHANGED << admission, conv, build >>

\* the except branch of send_video_note: the failure is classified by its text
ClassifyNoteError(j, err_text, ok) ==
  IF IsTooLong(err_text)
  THEN Answer(j, "duration_ceiling", ok)
  ELSE IF IsForbiddenVoiceVideo(err_text)
  THEN [j EXCEPT !.fallback_reason_forbidden = TRUE]
  ELSE j

\* lines 313-340: send_video_note, the classification of its failure, and the
\* explanation that precedes the video
SendNote ==
  /\ job.pc = "send_note"
  /\ \E res \in SendResults, ok \in BOOLEAN :
       LET j0 == [job EXCEPT !.sends = Append(@, "note")]
       IN job' =
            IF res = "ok"
            THEN [j0 EXCEPT !.sent_as_note = TRUE, !.pc = "metrics"]
            ELSE IF res = "other_exception"
            THEN Raise([j0 EXCEPT !.note_err = res], res)
            ELSE LET j1 == ClassifyNoteError([j0 EXCEPT !.note_err = res],
                                             Lower(ErrorTexts[res]), ok)
                 IN IF j1.pc = "failed" THEN j1 ELSE Fallback(j1, ok)
  /\ UNCHANGED << admission, conv, build >>

\* lines 341-357: send_video; a forbidden-video failure goes on to the
\* document, any other one is raised again
SendVideo ==
  /\ job.pc = "send_video"
  /\ \E res \in SendResults, ok \in BOOLEAN :
       LET j0 == [job EXCEPT !.sends = Append(@, "video")]
       IN job' =
            IF res = "ok"
            THEN [j0 EXCEPT !.pc = "metrics"]
            ELSE IF res = "other_exception"
            THEN Raise([j0 EXCEPT !.video_err = res], res)
            ELSE IF IsForbiddenVideo(Lower(ErrorTexts[res]))
            THEN Answer([j0 EXCEPT !.video_err = res, !.pc = "send_document"],
                        "video_forbidden", ok)
            ELSE Raise([j0 EXCEPT !.video_err = res], res)
  /\ UNCHANGED << admission, conv, build >>

\* lines 351-355: send_document, inside the except block: whatever it raises
\* propagates
SendDocument ==
  /\ job.pc = "send_document"
  /\ \E ok \in BOOLEAN :
       LET j0 == [job EXCEPT !.sends = Append(@, "document")]
       IN job' = IF ok THEN [j0 EXCEPT !.pc = "metrics"] ELSE Raise(j0, "document")
  /\ UNCHANGED << admission, conv, build >>

\* the calls of the counters collaborator after a delivery, in their order
MetricsCalls == << "record_conversion", "processing_ms", "output_size_bytes" >>

\* lines 358-368: record_conversion and the two record_metric calls, none of
\* them guarded: the first that raises ends _convert_and_send with its
\* exception; record_conversion commits nothing when it raises
Metrics ==
  /\ job.pc = "metrics"
  /\ \E failing \in 0..Len(MetricsCalls) :
       job' = IF failing = 0
              THEN ReturnFrom([job EXCEPT !.conversion_recorded = TRUE], "done")
              ELSE Raise([job EXCEPT !.conversion_recorded = (failing > 1),
                                     !.counters_failed = TRUE], "counters")
  /\ UNCHANGED << admission, conv, build >>

P_file_is_too_big ==
  << "f", "i", "l", "e", " ", "i", "s", " ", "t", "o", "o", " ", "b", "i", "g" >>

P_timeout ==
  << "t", "i", "m", "e", "o", "u", "t" >>

P_ffmpeg_error ==
  << "f", "f", "m", "p", "e", "g", " ", "U+043E", "U+0448", "U+0438", "U+0431", "U+043A",
     "U+0430" >>

P_duration ==
  << "U+0434", "U+043B", "U+0438", "U+0442", "U+0435", "U+043B", "U+044C", "U+043D",
     "U+043E", "U+0441", "U+0442", "U+044C" >>

\* str(e) of the RuntimeErrors of ffmpeg_utils.py (with the default timeout of
\* 600 s and a sample of ffmpeg's stderr) and of two errors raised by other
\* libraries
ExceptionTexts ==
  [ encode_timeout |->
      << "U+041E", "U+0431", "U+0440", "U+0430", "U+0431", "U+043E", "U+0442", "U+043A",
         "U+0430", " ", "U+0432", "U+0438", "U+0434", "U+0435", "U+043E", " ", "U+043F",
         "U+0440", "U+0435", "U+0432", "U+044B", "U+0441", "U+0438", "U+043B", "U+0430",
         " ", "U+043B", "U+0438", "U+043C", "U+0438", "U+0442", " ", "U+0432", "U+0440",
         "U+0435", "U+043C", "U+0435", "U+043D", "U+0438", " ", "6", "0", "0", " ",
         "U+0441", "U+0435", "U+043A", " ", "U+0438", " ", "U+0431", "U+044B", "U+043B",
         "U+0430", " ", "U+043F", "U+0440", "U+0435", "U+0440", "U+0432", "U+0430",
         "U+043D", "U+0430", "." >>,
    fallback_timeout |->
      << "U+041E", "U+0431", "U+0440", "U+0430", "U+0431", "U+043E", "U+0442", "U+043A",
         "U+0430", " ", "U+0432", "U+0438", "U+0434", "U+0435", "U+043E", " ", "(", "f",
         "a", "l", "l", "b", "a", "c", "k", ")", " ", "U+043F", "U+0440", "U+0435",
         "U+0432", "U+044B", "U+0441", "U+0438", "U+043B", "U+0430", " ", "U+043B",
         "U+0438", "U+043C", "U+0438", "U+0442", " ", "U+0432", "U+0440", "U+0435",
         "U+043C", "U+0435", "U+043D", "U+0438", " ", "6", "0", "0", " ", "U+0441",
         "U+0435", "U+043A", " ", "U+0438", " ", "U+0431", "U+044B", "U+043B", "U+0430",
         " ", "U+043F", "U+0440", "U+0435", "U+0440", "U+0432", "U+0430", "U+043D",
         "U+0430", "." >>,
    encode_failed |->
      << "F", "F", "m", "p", "e", "g", " ", "U+043E", "U+0448", "U+0438", "U+0431",
         "U+043A", "U+0430", ":", "\n", "I", "n", "v", "a", "l", "i", "d", " ", "d", "a",
         "t", "a", " ", "f", "o", "u", "n", "d", " ", "w", "h", "e", "n", " ", "p", "r",
         "o", "c", "e", "s", "s", "i", "n", "g", " ", "i", "n", "p", "u", "t" >>,
    sizefix_timeout |->
      << "U+041E", "U+0431", "U+0440", "U+0430", "U+0431", "U+043E", "U+0442", "U+043A",
         "U+0430", " ", "U+0432", "U+0438", "U+0434", "U+0435", "U+043E", " ", "(", "s",
         "i", "z", "e", "-", "f", "i", "x", ")", " ", "U+043F", "U+0440", "U+0435",
         "U+0432", "U+044B", "U+0441", "U+0438", "U+043B", "U+0430", " ", "U+043B",
         "U+0438", "U+043C", "U+0438", "U+0442", " ", "U+0432", "U+0440", "U+0435",
         "U+043C", "U+0435", "U+043D", "U+0438", " ", "6", "0", "0", " ", "U+0441",
         "U+0435", "U+043A", " ", "U+0438", " ", "U+0431", "U+044B", "U+043B", "U+0430",
         " ", "U+043F", "U+0440", "U+0435", "U+0440", "U+0432", "U+0430", "U+043D",
         "U+0430", "." >>,
    sizefix_failed |->
      << "F", "F", "m", "p", "e", "g", " ", "U+043E", "U+0448", "U+0438", "U+0431",
         "U+043A", "U+0430", " ", "(", "s", "i", "z", "e", "-", "f", "i", "x", ")", ":",
         "\n", "I", "n", "v", "a", "l", "i", "d", " ", "d", "a", "t", "a", " ", "f", "o",
         "u", "n", "d", " ", "w", "h", "e", "n", " ", "p", "r", "o", "c", "e", "s", "s",
         "i", "n", "g", " ", "i", "n", "p", "u", "t" >>,
    ffmpeg_missing |->
      << "F", "F", "m", "p", "e", "g", " ", "U+043D", "U+0435", " ", "U+043D", "U+0430",
         "U+0439", "U+0434", "U+0435", "U+043D", ".", " ", "U+0423", "U+0441", "U+0442",
         "U+0430", "U+043D", "U+043E", "U+0432", "U+0438", "U+0442", "U+0435", " ", "F",
         "F", "m", "p", "e", "g", " ", "U+0438", " ", "U+0443", "U+0431", "U+0435",
         "U+0434", "U+0438", "U+0442", "U+0435", "U+0441", "U+044C", ",", " ", "U+0447",
         "U+0442", "U+043E", " ", "U+043E", "U+043D", " ", "U+0434", "U+043E", "U+0441",
         "U+0442", "U+0443", "U+043F", "U+0435", "U+043D", " ", "U+0432", " ", "P", "A",
         "T", "H", ".", " ", "U+041D", "U+0430", "U+043F", "U+0440", "U+0438", "U+043C",
         "U+0435", "U+0440", ",", " ", "U+043D", "U+0430", " ", "m", "a", "c", "O", "S",
         ":", " ", "b", "r", "e", "w", " ", "i", "n", "s", "t", "a", "l", "l", " ", "f",
         "f", "m", "p", "e", "g" >>,
    request_timeout |->
      << "H", "T", "T", "P", " ", "C", "l", "i", "e", "n", "t", " ", "s", "a", "y", "s",
         " ", "-", " ", "R", "e", "q", "u", "e", "s", "t", " ", "t", "i", "m", "e", "o",
         "u", "t", " ", "e", "r", "r", "o", "r" >>,
    no_space |->
      << "[", "E", "r", "r", "n", "o", " ", "2", "8", "]", " ", "N", "o", " ", "s", "p",
         "a", "c", "e", " ", "l", "e", "f", "t", " ", "o", "n", " ", "d", "e", "v", "i",
         "c", "e" >> ]

\* the exceptions whose text is not the program's to choose
ForeignErrors == {"other_exception", "answer", "document", "counters"}

\* str(e) of an exception of another library: a sample of what these say
ForeignTexts ==
  { ExceptionTexts.request_timeout, ExceptionTexts.no_space, ErrorTexts.too_big,
    ErrorTexts.empty }

\* str(e), for the exception that left the `try` block: a Telegram error has
\* its text, the executor's RuntimeErrors have the messages of ffmpeg_utils.py
\* (a timeout on the first or on the second attempt; a size-fix pass that
\* timed out or exited nonzero)
RaisedTexts(raised) ==
  CASE raised \in ErrorIds -> { ErrorTexts[raised] }
    [] raised = "encode_timeout" ->
         { ExceptionTexts.encode_timeout, ExceptionTexts.fallback_timeout }
    [] raised = "encode_failed" -> { ExceptionTexts.encode_failed }
    [] raised = "sizefix_failed" ->
         { ExceptionTexts.sizefix_timeout, ExceptionTexts.sizefix_failed }
    [] raised = "ffmpeg_missing" -> { ExceptionTexts.ffmpeg_missing }
    [] OTHER -> ForeignTexts

\* "file is too big" in (str(e) or "").lower()
KnownTooBig(text) == Contains(Lower(text), P_file_is_too_big)

\* lines 502-512: the short code, chosen by what the lowered text contains
ErrorCode(text) ==
  LET msg == Lower(text)
  IN IF Contains(msg, P_timeout) THEN "ffmpeg_timeout"
     ELSE IF Contains(msg, P_ffmpeg_error) THEN "ffmpeg_error"
     ELSE IF Contains(msg, P_file_is_too_big) THEN "tele_big"
     ELSE IF Contains(msg, P_duration) THEN "duration_limit"
     ELSE "other"

\* lines 500-520: `except Exception` of the handler: record_error with the
\* short code, unguarded, then the hint about big files when the text asks
\* for it, then the error message; whatever raises in here leaves the handler
HandleException ==
  /\ job.pc = "failed"
  /\ job.handler = "running"
  /\ \E rec_ok \in BOOLEAN, ans_ok \in BOOLEAN, text \in RaisedTexts(job.raised) :
       LET texts == IF KnownTooBig(text) THEN << "too_big_hint", "processing_error" >>
                    ELSE << "processing_error" >>
           j == [job EXCEPT !.error_recorded = TRUE,
                            !.error_code = ErrorCode(text)]
       IN job' =
            IF ~rec_ok
            THEN [job EXCEPT !.counters_failed = TRUE, !.handler = "escaped"]
            ELSE IF ~ans_ok
            THEN [j EXCEPT !.answer_failed = TRUE, !.handler = "escaped"]
            ELSE [j EXCEPT !.error_said = texts, !.handler = "reported"]
  /\ UNCHANGED << admission, conv, build >>

\* -------------------------------------------------- the transcode executor

P_2020 == << "2", "0", "2", "0" >>

P_arib_std_b67 ==
  << "a", "r", "i", "b", "-", "s", "t", "d", "-", "b", "6", "7" >>

P_smpte2084 == << "s", "m", "p", "t", "e", "2", "0", "8", "4" >>

\* What probe_source_colorspace returns: {} when ffprobe fails or shows no
\* stream (here << >>), else the three fields of the first stream, each a text
\* or None (an Optional text is << >> or << text >>).
ColorSamples ==
  [ missing |-> << >>,
    untagged |->
      << [ color_primaries |-> << >>,
           color_transfer |-> << >>,
           color_space |-> << >> ] >>,
    sdr |->
      << [ color_primaries |-> << << "b", "t", "7", "0", "9" >> >>,
           color_transfer |-> << << "b", "t", "7", "0", "9" >> >>,
           color_space |-> << << "b", "t", "7", "0", "9" >> >> ] >>,
    sdr_old |->
      << [ color_primaries |-> << << "s", "m", "p", "t", "e", "1", "7", "0", "m" >> >>,
           color_transfer |-> << << "s", "m", "p", "t", "e", "4", "2", "8" >> >>,
           color_space |-> << << >> >> ] >>,
    pq |->
      << [ color_primaries |-> << << "b", "t", "2", "0", "2", "0" >> >>,
           color_transfer |-> << << "s", "m", "p", "t", "e", "2", "0", "8", "4" >> >>,
           color_space |-> << << "b", "t", "2", "0", "2", "0", "n", "c" >> >> ] >>,
    hlg |->
      << [ color_primaries |-> << >>,
           color_transfer |-> << << "a", "r", "i", "b", "-", "s", "t", "d", "-", "b", "6", "7" >> >>,
           color_space |-> << >> ] >>,
    pq_upper |->
      << [ color_primaries |-> << << "b", "t", "7", "0", "9" >> >>,
           color_transfer |-> << << "S", "M", "P", "T", "E", "2", "0", "8", "4" >> >>,
           color_space |-> << << "b", "t", "7", "0", "9" >> >> ] >>,
    prim2020 |->
      << [ color_primaries |-> << << "B", "T", "2", "0", "2", "0" >> >>,
           color_transfer |-> << << "b", "t", "7", "0", "9" >> >>,
           color_space |-> << << "b", "t", "7", "0", "9" >> >> ] >>,
    mtx2020 |->
      << [ color_primaries |-> << >>,
           color_transfer |-> << >>,
           color_space |-> << << "b", "t", "2", "0", "2", "0", "n", "c" >> >> ] >> ]

ColorIds == DOMAIN ColorSamples

\* (source_colors.get(field) or "").lower() if source_colors else ""
ColorField(source_colors, field) ==
  IF source_colors = << >> THEN << >>
  ELSE IF source_colors[1][field] = << >> THEN << >>
  ELSE Lower(source_colors[1][field][1])

\* HDR told by the transfer alone
IsHdrByTransferOnly(prim, trc, mtx) == trc \in {P_arib_std_b67, P_smpte2084}

\* is_hdr = trc in ("arib-std-b67", "smpte2084") or "2020" in prim or "2020" in mtx
IsHdr(prim, trc, mtx) ==
  \/ trc \in {P_arib_std_b67, P_smpte2084}
  \/ Contains(prim, P_2020)
  \/ Contains(mtx, P_2020)

\* the normalization added whenever the limited range is forced
NeedsColorspaceWheneverForced(force_limited_range, is_hdr) == force_limited_range

\* if force_limited_range and not is_hdr
NeedsColorspace(force_limited_range, is_hdr) == force_limited_range /\ ~is_hdr

\* Numbers of the adjustment stage are counted in ten-thousandths; what is
\* written is counted in thousandths. f"{x:.3f}": x rounded to three decimals
Fmt3(x) == IF x >= 0 THEN (x + 5) \div 10 ELSE -((5 - x) \div 10)

\* the four parameters written as they were supplied
EqPartsUnclamped(saturation, contrast, brightness, gamma) ==
  [ saturation |-> Fmt3(saturation), contrast |-> Fmt3(contrast),
    brightness |-> Fmt3(brightness), gamma |-> Fmt3(gamma) ]

\* lines 99-104: saturation=max(0.0, saturation), contrast=max(0.0, contrast),
\* brightness=brightness, gamma=max(0.1, gamma), each with three decimals
EqParts(saturation, contrast, brightness, gamma) ==
  [ saturation |-> Fmt3(Max(0, saturation)), contrast |-> Fmt3(Max(0, contrast)),
    brightness |-> Fmt3(brightness), gamma |-> Fmt3(Max(1000, gamma)) ]

\* lines 72-110: the filter chain, stage by stage
VfChain(source_colors, force_limited_range, enhance_saturation, compat_video_note, apply_color_tags) ==
  LET prim == ColorField(source_colors, "color_primaries")
      trc == ColorField(source_colors, "color_transfer")
      mtx == ColorField(source_colors, "color_space")
      is_hdr == IsHdr(prim, trc, mtx)
  IN << "crop" >>
       \o (IF is_hdr THEN << "zscale_in", "tonemap", "zscale_out" >> ELSE << >>)
       \o << "scale", "setsar" >>
       \o (IF NeedsColorspace(force_limited_range, is_hdr) THEN << "colorspace" >>
           ELSE << >>)
       \o (IF enhance_saturation THEN << "eq" >> ELSE << >>)
       \o << "format" >>
       \o (IF (~compat_video_note) /\ apply_color_tags THEN << "setparams" >> ELSE << >>)

\* build_ffmpeg_command as convert_to_square_video_note calls it: software
\* encoder, compat_video_note=True, the defaults for force_limited_range and
\* apply_color_tags; the command is its filter chain and its audio codec
BuildFfmpegCommand(source_colors, audio_codec, enhance_saturation) ==
  [ vf_chain |-> VfChain(source_colors, FALSE, enhance_saturation, TRUE, FALSE),
    audio_codec |-> audio_codec ]

ffmpeg_timeout_default == 600     \* FFMPEG_TIMEOUT_SECONDS default
size_limit_mb_default == 12       \* TELEGRAM_VIDEONOTE_LIMIT_MB default
audio_k == 96
v_k_floor == 300
v_k_fallback == 1800
MiB == 1048576

\* an environment variable that holds a number: unset, not a number, or n
Unset == [kind |-> "unset", n |-> 0]
Invalid == [kind |-> "invalid", n |-> 0]
Number(n) == [kind |-> "number", n |-> n]

\* int(os.getenv(name, default)) with the default on an exception
FromEnv(value, default) == IF value.kind = "number" THEN value.n ELSE default

TimeoutEnvs == {Unset, Number(30)}
LimitEnvs == {Unset, Invalid, Number(-1), Number(0), Number(1)}

\* output_path.stat().st_size; a missing file counts as 0
ArtifactSizes == {0, MiB, MiB + 1, 12 * MiB, 12 * MiB + 1, 15 * MiB}

\* what ffprobe says of a duration, in tenths of a second
FixDurations == {Unknown, << 0 >>, << 15 >>, << 600 >>}

\* subprocess.run: exit status 0, another exit status, or TimeoutExpired
RunResults == {"ok", "nonzero", "timeout"}

\* an exit status that is never taken for a failure
ExitIgnored(result) == FALSE

\* proc.returncode != 0
ReturnCodeNonzero(result) == result = "nonzero"

\* _probe_duration_seconds(output_path) or _probe_duration_seconds(input_path) or 0.0
FirstDuration(probe_out, probe_in) ==
  IF probe_out # Unknown /\ probe_out[1] # 0 THEN probe_out[1]
  ELSE IF probe_in # Unknown /\ probe_in[1] # 0 THEN probe_in[1]
  ELSE 0

\* int(size_limit_bytes * 8 * 0.95): 19/20 of the bits, rounded down, written
\* as x - ceil(x / 20) to stay within 32 bits
TargetBitsTotal(size_limit_bytes) ==
  LET x == size_limit_bytes * 8 IN x - ((x + 19) \div 20)

\* the bitrate without its floor
VideoBitrateNoFloor(size_limit_bytes, duration) ==
  IF duration > 0
  THEN TargetBitsTotal(size_limit_bytes) \div (duration * 100) - audio_k
  ELSE v_k_fallback

\* v_k = max(300, int(target_bits_total / duration / 1000) - audio_k) if
\* duration > 0 else 1800; the duration is in tenths of a second, so the
\* quotient is target_bits_total / (duration * 100)
VideoBitrate(size_limit_bytes, duration) ==
  IF duration > 0
  THEN Max(v_k_floor,
           TargetBitsTotal(size_limit_bytes) \div (duration * 100) - audio_k)
  ELSE v_k_fallback

\* the size-fit pass also for an artifact exactly at the ceiling
OverCeilingOrAt(out_size, size_limit_bytes) == out_size >= size_limit_bytes

\* if out_size > size_limit_bytes
OverCeiling(out_size, size_limit_bytes) == out_size > size_limit_bytes

\* the call of convert_to_square_video_note: where it stands, the probed
\* colours, the command of the attempt at hand, the runs of ffmpeg made so far
\* (audio codec or "sizefix", timeout, result), the size of the file at
\* output_path, the ceiling and the measured size, the number of stat() calls,
\* the size-fit duration and bitrate, the error raised, which of output_path
\* and tmp_path hold a file, and the size of the file at tmp_path
StartConv ==
  [ pc |-> "start", colors |-> "none", enhance |-> FALSE, cmd |-> << >>,
    runs |-> << >>, timeout_s |-> 0, artifact_size |-> 0, size_limit_mb |-> 0,
    out_size |-> 0, stats |-> 0, duration |-> 0, v_k |-> 0, error |-> "none",
    files |-> {}, tmp_size |-> 0 ]

ConvRaise(c, error) == [c EXCEPT !.pc = "raised", !.error = error]

\* lines 214-244: ffmpeg is looked for, the colours are probed, the copy-audio
\* command is built, the timeout is read
Prepare ==
  /\ conv.pc = "start"
  /\ \E available \in BOOLEAN, colors \in ColorIds, enhance \in BOOLEAN,
        timeout_env \in TimeoutEnvs :
       conv' = IF ~available THEN ConvRaise(conv, "ffmpeg_missing")
               ELSE [conv EXCEPT
                       !.pc = "first_attempt",
                       !.colors = colors,
                       !.enhance = enhance,
                       !.cmd = << BuildFfmpegCommand(ColorSamples[colors], "copy", enhance) >>,
                       !.timeout_s = FromEnv(timeout_env, ffmpeg_timeout_default)]
  /\ UNCHANGED << admission, job, build >>

\* one subprocess.run of the command at hand
Ran(c, result) ==
  [c EXCEPT !.runs = Append(@, [audio_codec |-> c.cmd[1].audio_codec,
                                timeout_s |-> c.timeout_s, result |-> result])]

\* lines 245-267: the copy-audio attempt; a timeout raises, a nonzero exit
\* builds the aac command; on success ffmpeg has written the artifact
FirstAttempt ==
  /\ conv.pc = "first_attempt"
  /\ \E result \in RunResults, written \in ArtifactSizes :
       LET c == Ran(conv, result)
       IN conv' =
            IF result = "timeout" THEN ConvRaise(c, "timeout")
            ELSE IF ReturnCodeNonzero(result)
            THEN [c EXCEPT !.pc = "second_attempt",
                           !.cmd = << BuildFfmpegCommand(ColorSamples[c.colors], "aac",
                                                         c.enhance) >>]
            ELSE [c EXCEPT !.pc = "size_check", !.artifact_size = written,
                           !.files = {"output_path"}]
  /\ UNCHANGED << admission, job, build >>

\* lines 268-273: the aac attempt; a timeout raises, a nonzero exit raises
\* with proc2's stderr
SecondAttempt ==
  /\ conv.pc = "second_attempt"
  /\ \E result \in RunResults, written \in ArtifactSizes :
       LET c == Ran(conv, result)
       IN conv' =
            IF result = "timeout" THEN ConvRaise(c, "timeout_fallback")
            ELSE IF ReturnCodeNonzero(result) THEN ConvRaise(c, "ffmpeg_error")
            ELSE [c EXCEPT !.pc = "size_check", !.artifact_size = written,
                           !.files = {"output_path"}]
  /\ UNCHANGED << admission, job, build >>

\* lines 275-299: the ceiling is read; a ceiling <= 0 returns at once; else
\* the artifact is measured and, over the ceiling, the bitrate is computed
\* from the first duration that a probe gives. The colours and the command
\* are of no use past the primary encode.
SizeCheck ==
  /\ conv.pc = "size_check"
  /\ \E limit_env \in LimitEnvs, probe_out \in FixDurations, probe_in \in FixDurations :
       LET size_limit_mb == FromEnv(limit_env, size_limit_mb_default)
           size_limit_bytes == size_limit_mb * MiB
           out_size == conv.artifact_size
           c == [conv EXCEPT !.colors = "none", !.enhance = FALSE, !.cmd = << >>,
                             !.size_limit_mb = size_limit_mb]
           duration == FirstDuration(probe_out, probe_in)
       IN conv' =
            IF size_limit_mb <= 0 THEN [c EXCEPT !.pc = "returned"]
            ELSE IF OverCeiling(out_size, size_limit_bytes)
            THEN [c EXCEPT !.pc = "size_fix", !.out_size = out_size, !.stats = @ + 1,
                           !.duration = duration,
                           !.v_k = VideoBitrate(size_limit_bytes, duration)]
            ELSE [c EXCEPT !.pc = "returned", !.out_size = out_size, !.stats = @ + 1]
  /\ UNCHANGED << admission, job, build >>

\* cmd_reduce: ffmpeg -y ... -i str(output_path) ... str(tmp_path), where
\* tmp_path = output_path.with_suffix(".sizefix.mp4")
CmdReduce == [ input |-> "output_path", output |-> "tmp_path" ]

\* lines 300-325: the size-fit re-encode reads the artifact and writes the
\* scratch file; ffmpeg does not touch its input. A timeout or a nonzero exit
\* raises, and the encoder that failed or was killed may have left a part of
\* its output behind; else the replacement follows.
SizeFix ==
  /\ conv.pc = "size_fix"
  /\ \E result \in RunResults, new_size \in ArtifactSizes, partial \in BOOLEAN :
       LET c == [conv EXCEPT !.runs = Append(@, [audio_codec |-> "sizefix",
                                                  timeout_s |-> conv.timeout_s,
                                                  result |-> result,
                                                  input |-> CmdReduce.input,
                                                  output |-> CmdReduce.output])]
           left == IF partial THEN {CmdReduce.output} ELSE {}
       IN conv' =
            IF result = "timeout"
            THEN ConvRaise([c EXCEPT !.files = @ \cup left], "sizefix_timeout")
            ELSE IF ReturnCodeNonzero(result)
            THEN ConvRaise([c EXCEPT !.files = @ \cup left], "sizefix_error")
            ELSE [c EXCEPT !.pc = "unlink", !.files = @ \cup {CmdReduce.output},
                           !.tmp_size = new_size]
  /\ UNCHANGED << admission, job, build >>

\* line 327: output_path.unlink(missing_ok=True)
Unlink ==
  /\ conv.pc = "unlink"
  /\ conv' = [conv EXCEPT !.pc = "rename", !.files = @ \ {"output_path"},
                           !.artifact_size = 0]
  /\ UNCHANGED << admission, job, build >>

\* line 328: tmp_path.rename(output_path); the scratch file, whatever its
\* size, is the artifact now, and the function returns
Rename ==
  /\ conv.pc = "rename"
  /\ conv' = [conv EXCEPT !.pc = "returned",
                           !.files = (@ \ {"tmp_path"}) \cup {"output_path"},
                           !.artifact_size = conv.tmp_size, !.tmp_size = 0]
  /\ UNCHANGED << admission, job, build >>

\* what the caller sees of the call
ConvertResult(c) ==
  CASE c.pc = "returned" -> "ok"
    [] c.error \in {"timeout", "timeout_fallback"} -> "encode_timeout"
    [] c.error = "ffmpeg_error" -> "encode_failed"
    [] c.error \in {"sizefix_timeout", "sizefix_error"} -> "sizefix_failed"
    [] c.error = "ffmpeg_missing" -> "ffmpeg_missing"

\* time passes
Tick ==
  /\ \E d \in env.clock : Epoch + d > now /\ now' = Epoch + d
  /\ UNCHANGED << build, conv, job, env, max_concurrency, processed_messages, processed_groups,
                  user_busy_until, user_locks, semaphore, sem_waiters, req >>

Next ==
  \/ Tick
  \/ \E r \in ReqIds : Receive(r)
  \/ \E r \in ReqIds : Return(r)
  \/ \E r \in ReqIds : HandleMedia(r)
  \/ \E r \in ReqIds : HandleUrl(r)
  \/ \E r \in ReqIds : LockAcquired(r)
  \/ \E r \in ReqIds : RejectAnswered(r)
  \/ \E r \in ReqIds : SemAcquired(r)
  \/ \E r \in ReqIds : Download(r)
  \/ \E r \in ReqIds : ConvertDone(r)
  \/ \E r \in ReqIds : DeliverDone(r)

Spec == Init /\ [][Next]_vars

\* the jobs under the event loop's scheduling: a handler that is the first in
\* the semaphore's queue while a unit is free is woken, and a download, a
\* transcode and a delivery that have started come to an end. Arrivals, the
\* clock and the replies to rejections are left free.
JobsProgress ==
  \A r \in ReqIds :
    /\ WF_vars(SemAcquired(r))
    /\ WF_vars(Download(r))
    /\ WF_vars(ConvertDone(r))
    /\ WF_vars(DeliverDone(r))

SpecLive == Init /\ [][Next]_vars /\ JobsProgress

\* one job of a media handler, from the kind counter to the handler's end;
\* the dedupe, the gate, the semaphore and the download are those of Spec
InitJob ==
  /\ InitAdmission
  /\ env = GateEnv
  /\ job = StartJob
  /\ conv = NoConv
  /\ build = NoBuild

NextJob ==
  \/ RecordKind
  \/ DownloadSource
  \/ CheckDuration
  \/ Convert
  \/ GetChat
  \/ SendNote
  \/ SendVideo
  \/ SendDocument
  \/ Metrics
  \/ HandleException

SpecJob == InitJob /\ [][NextJob]_vars

\* one call of the executor
InitConvert ==
  /\ InitAdmission
  /\ env = GateEnv
  /\ job = NoJob
  /\ conv = StartConv
  /\ build = NoBuild

NextConvert ==
  \/ Prepare
  \/ FirstAttempt
  \/ SecondAttempt
  \/ SizeCheck
  \/ SizeFix
  \/ Unlink
  \/ Rename

SpecConvert == InitConvert /\ [][NextConvert]_vars

\* saturation, contrast, brightness, gamma as a caller may supply them, in
\* ten-thousandths: -0.5, 0, 0.0996 and 1.2
EqValues == {-5000, 0, 996, 12000}

\* the arguments of one call of build_ffmpeg_command that its filter chain
\* depends on
BuildArgs ==
  [ source_colors : ColorIds, force_limited_range : BOOLEAN,
    enhance_saturation : BOOLEAN, compat_video_note : BOOLEAN,
    apply_color_tags : BOOLEAN, saturation : EqValues, contrast : EqValues,
    brightness : EqValues, gamma : EqValues ]

\* one call of build_ffmpeg_command, with any arguments
InitBuild ==
  /\ InitAdmission
  /\ env = GateEnv
  /\ job = NoJob
  /\ conv = NoConv
  /\ \E args \in BuildArgs : build = [ pc |-> "called", args |-> args ]

\* lines 72-111: the filter chain is put together; the adjustment stage, when
\* it is there, carries the four parameters as they are written
Build ==
  /\ build.pc = "called"
  /\ LET a == build.args
     IN build' =
          [ pc |-> "built", args |-> a,
            vf_chain |-> VfChain(ColorSamples[a.source_colors], a.force_limited_range,
                                 a.enhance_saturation, a.compat_video_note,
                                 a.apply_color_tags),
            eq |-> IF a.enhance_saturation
                   THEN << EqParts(a.saturation, a.contrast, a.brightness, a.gamma) >>
                   ELSE << >> ]
  /\ UNCHANGED << admission, job, conv >>

NextBuild == Build

SpecBuild == InitBuild /\ [][NextBuild]_vars

\* ------------------------------------------------------------------ claims

\* the jobs inside `async with _semaphore`
Holding == { r \in ReqIds : req[r].pc \in {"download", "convert", "deliver"} }

\* the jobs of user u between the gate and the end of their pipeline
ActiveJobs(u) ==
  { r \in ReqIds : req[r].user = u
                   /\ req[r].pc \in {"wait_sem", "download", "convert", "deliver"} }

\* N = max(1, MAX_CONCURRENCY), written out
N == IF max_concurrency > 1 THEN max_concurrency ELSE 1

\* handler r comes to the test `if busy_until > now` in this step
ReachesGate(r) ==
  /\ req[r].pc \in {"arrived", "wait_lock"}
  /\ req'[r].pc \in {"reject_answer", "wait_sem", "download"}

\* handler r of a media message runs its admission checks in this step
HandlesMedia(r) ==
  /\ req[r].pc = "arrived"
  /\ ~req[r].url
  /\ req'[r].pc # "arrived"

\* the key / the media group is on record and its TTL has not run out
MessageOnRecord(k) ==
  k \in DOMAIN processed_messages /\ now - processed_messages[k] <= ProcessedTtl

GroupOnRecord(g) ==
  g \in DOMAIN processed_groups /\ now - processed_groups[g] <= GroupsTtl

\* the job of handler r ends in this step, whatever the exit path
JobEnds(r) == r \in Holding /\ req'[r].pc = "done"

\* C1: in every reachable state at most N = max(1, MAX_CONCURRENCY) jobs are
\* inside the permit-held section, and every running conversion is covered by
\* a unit taken from the semaphore.
C1_ConcurrencyCap ==
  /\ Cardinality(Holding) <= N
  /\ Cardinality({ r \in ReqIds : req[r].pc = "convert" }) <= N - semaphore

\* C1 witness: the cap is reached, a conversion runs and another admitted
\* request waits for a unit.
C1_Witness ==
  /\ Cardinality(Holding) = N
  /\ sem_waiters # << >>
  /\ \E r \in ReqIds : req[r].pc = "convert"

\* C2 (as claimed): a user never has two admitted jobs active at once.
C2_OneActiveJobPerUser ==
  \A u \in env.users : Cardinality(ActiveJobs(u)) <= 1

\* C3: a request that reaches the gate while now < busyUntil[u] is rejected
\* as rate-limited with an integer wait >= 1, the rejection leaves busyUntil
\* unchanged and takes no concurrency unit; less than a second after the
\* admission that set a 20 s window the reported wait is 19 or 20.
C3_RateLimitedRejection ==
  [][ \A r \in ReqIds :
        (ReachesGate(r) /\ now < Get(user_busy_until, req[r].user, 0)) =>
          /\ req'[r].pc = "reject_answer"
          /\ req'[r].outcome = "rate_limited"
          /\ req'[r].wait \in Nat
          /\ req'[r].wait >= 1
          /\ user_busy_until' = user_busy_until
          /\ semaphore' = semaphore
          /\ sem_waiters' = sem_waiters
          /\ (now - (user_busy_until[req[r].user] - PerUserLimit) < TicksPerSec
                => req'[r].wait \in {per_user_limit_s - 1, per_user_limit_s}) ]_vars

\* C3 witness: a rejection half a second after the admission, reporting 19 s.
C3_Witness ==
  \E r \in ReqIds :
    /\ req[r].pc = "reject_answer"
    /\ req[r].wait = per_user_limit_s - 1
    /\ now - (user_busy_until[req[r].user] - PerUserLimit) < TicksPerSec

\* C4: a media request that comes to the message-dedupe check while its
\* (chat id, message id) key is on record for at most 180 s returns silently:
\* nothing is recorded anew, busyUntil and the locks are untouched, no unit is
\* taken and no job starts.
C4_MessageDedupe ==
  [][ \A r \in ReqIds :
        ( /\ HandlesMedia(r)
          /\ req[r].group = None \/ ~GroupOnRecord(req[r].group)
          /\ MessageOnRecord(req[r].key) ) =>
          /\ req'[r].pc = "done"
          /\ req'[r].outcome = "dup_msg"
          /\ processed_messages'[req[r].key] = processed_messages[req[r].key]
          /\ user_busy_until' = user_busy_until
          /\ user_locks' = user_locks
          /\ semaphore' = semaphore
          /\ sem_waiters' = sem_waiters ]_vars

\* C4 witness: a duplicate returned silently exactly 180 s after the first.
C4_Witness ==
  \E r \in ReqIds :
    /\ req[r].pc = "done"
    /\ req[r].outcome = "dup_msg"
    /\ \E k \in DOMAIN processed_messages : now - processed_messages[k] = ProcessedTtl

\* C5: a request whose media-group id is on record for at most 300 s gets the
\* duplicate-group reply and goes no further: no (chat, message) key is swept
\* or recorded, busyUntil and the locks are untouched and no unit is taken.
C5_GroupDedupe ==
  [][ \A r \in ReqIds :
        ( /\ HandlesMedia(r)
          /\ req[r].group # None
          /\ GroupOnRecord(req[r].group) ) =>
          /\ req'[r].pc = "done"
          /\ req'[r].outcome = "dup_group"
          /\ processed_groups'[req[r].group] = processed_groups[req[r].group]
          /\ processed_messages' = processed_messages
          /\ user_busy_until' = user_busy_until
          /\ user_locks' = user_locks
          /\ semaphore' = semaphore
          /\ sem_waiters' = sem_waiters ]_vars

\* C5 witness: a second item of the group rejected exactly 300 s after the first.
C5_Witness ==
  \E r \in ReqIds :
    /\ req[r].pc = "done"
    /\ req[r].outcome = "dup_group"
    /\ \E g \in DOMAIN processed_groups : now - processed_groups[g] = GroupsTtl

\* C6: free units + held units = N with 0 <= free units <= N in every state,
\* all N units are free when no job is inside the section, and every job that
\* ends, on whatever exit path, gives back exactly the one unit it held.
C6_PermitReleased ==
  /\ semaphore + Cardinality(Holding) = N
  /\ 0 <= semaphore
  /\ semaphore <= N
  /\ (Holding = {} => semaphore = N)

\* C6 witness: a job has just failed in the encoder and every unit is free again.
C6_Witness ==
  /\ \E r \in ReqIds : req[r].pc = "done" /\ req[r].outcome = "encode_timeout"
  /\ Holding = {}
  /\ semaphore = N
\* C7: the checks run in the order group dedupe, message dedupe, declared
\* size, user gate, semaphore, and a request rejected at one check leaves the
\* state of every later check as it was: a duplicate-group rejection touches
\* no (chat, message) key, a duplicate-message or size-limit rejection does not
\* touch busyUntil or the user's lock, a rate-limited rejection takes no unit.
C7_CheckOrderAndFrame ==
  [][ /\ \A r \in ReqIds, lim \in UserLimitMbs, size \in MediaSizes :
           HandleMediaWith(r, lim, size) =>
             LET dupG == req[r].group # None /\ GroupOnRecord(req[r].group)
                 dupM == MessageOnRecord(req[r].key)
                 big == lim > 0 /\ size # 0 /\ size > lim * 1024 * 1024
                 gateUntouched == /\ user_busy_until' = user_busy_until
                                  /\ user_locks' = user_locks
                 permitUntouched == /\ semaphore' = semaphore
                                    /\ sem_waiters' = sem_waiters
             IN /\ dupG =>
                     /\ req'[r].outcome = "dup_group"
                     /\ processed_messages' = processed_messages
                     /\ gateUntouched /\ permitUntouched
                /\ (~dupG /\ dupM) =>
                     /\ req'[r].outcome = "dup_msg"
                     /\ gateUntouched /\ permitUntouched
                /\ (~dupG /\ ~dupM /\ big) =>
                     /\ req'[r].outcome = "size_limit"
                     /\ gateUntouched /\ permitUntouched
                /\ (~dupG /\ ~dupM /\ ~big) =>
                     /\ req'[r].pc \in {"wait_lock", "reject_answer", "wait_sem", "download"}
                     /\ req[r].key \in DOMAIN processed_messages'
                     /\ req'[r].pc \in {"wait_lock", "reject_answer"} =>
                          (user_busy_until' = user_busy_until /\ permitUntouched)
      /\ \A r \in ReqIds :
           (req[r].pc # "reject_answer" /\ req'[r].pc = "reject_answer") =>
             (semaphore' = semaphore /\ sem_waiters' = sem_waiters) ]_vars

\* C7 witness: a size-limit rejection of a user who has never been through
\* the gate, with every unit free and the message key recorded by the
\* earlier check.
C7_Witness ==
  \E r \in ReqIds :
    /\ req[r].pc = "done"
    /\ req[r].outcome = "size_limit"
    /\ req[r].user \notin DOMAIN user_busy_until
    /\ processed_messages # << >>
    /\ semaphore = N

C9_GateReleasedOnGiveUp ==
  [][ \A r \in ReqIds :
        (JobEnds(r) /\ req'[r].outcome \in {"duration", "download_failed"}) =>
          ~(Get(user_busy_until', req[r].user, 0) > now') ]_vars
\* the sample error texts of the "too long" class
TooLongSamples == {"too_long", "longer_than", "video_note_long", "forbidden_too_long"}

\* C10 (as claimed): a note-send failure of the "too long" class is terminal:
\* the user is told the duration ceiling and neither send_video nor
\* send_document is attempted afterwards.
C10_TooLongIsTerminal ==
  job.note_err \in TooLongSamples =>
    /\ job.pc \in {"done", "failed"}
    /\ job.sends = << "note" >>

\* C10 (amended): a note-send failure of the "too long" class is answered with
\* the duration ceiling and, unless that answer itself raises, the ladder goes
\* on to exactly one send_video, with no notes-forbidden explanation in
\* between; send_document follows only a failure of that send_video whose text
\* holds "forbidden" and "video".
C10_TooLongFallsBackToVideo ==
  job.note_err \in TooLongSamples =>
    /\ job.sends[1] = "note"
    /\ \A i \in 1..Len(job.said) : job.said[i] # "notes_forbidden"
    /\ job.pc \in {"send_video", "send_document", "metrics", "done", "failed"}
    /\ Len(job.sends) = 1 =>
         \/ job.pc = "send_video" /\ job.said = << "duration_ceiling" >>
         \/ job.pc = "failed" /\ job.said = << >> /\ job.answer_failed
    /\ Len(job.sends) > 1 =>
         /\ job.sends \in { << "note", "video" >>, << "note", "video", "document" >> }
         /\ job.said[1] = "duration_ceiling"
    /\ job.pc \in {"metrics", "done"} => Len(job.sends) > 1
    /\ job.pc = "send_document" =>
         job.sends = << "note", "video" >> /\ job.said[2] = "video_forbidden"
    /\ Len(job.sends) = 3 =>
         job.video_err \in {"forbidden_too_long", "forbidden_video"}

\* C10 witness: the note was refused as too long (by the third pattern), the
\* user was told the ceiling, and the clip went out as a plain video.
C10_Witness ==
  /\ job.pc = "done"
  /\ job.note_err = "video_note_long"
  /\ job.said = << "duration_ceiling" >>
  /\ job.sends = << "note", "video" >>

\* ---------------------------------------------------- the delivery fallback

\* how often a mode occurs among the sends
Count(sends, mode) == Cardinality({ i \in 1..Len(sends) : sends[i] = mode })

Said(j, text) == \E i \in 1..Len(j.said) : j.said[i] = text

\* the note failed and the ladder stands at, or has gone through, exactly one
\* send_video that came right after the note
VideoOnceAfterNote ==
  /\ job.sends[1] = "note"
  /\ Count(job.sends, "note") = 1
  /\ \/ job.pc = "send_video" /\ job.sends = << "note" >>
     \/ Len(job.sends) >= 2 /\ job.sends[2] = "video" /\ Count(job.sends, "video") = 1

\* the sample texts of a note failure that are classified as forbidden
\* (voice/video), and those of no class
ForbiddenNoteSamples == {"voice_forbidden", "forbidden_video"}
UnclassifiedNoteSamples == {"forbidden_other", "too_big", "empty"}

\* C11: a note-send failure classified as forbidden (voice/video) is
\* followed by exactly one send_video, which the explanation precedes (if the
\* explanation itself cannot be sent the job ends there); a note-send failure
\* of no class is followed by exactly one send_video with no explanation.
C11_NoteFailureFallsBackToVideo ==
  /\ job.note_err \in ForbiddenNoteSamples =>
       \/ job.raised = "answer" /\ job.sends = << "note" >> /\ job.said = << >>
       \/ job.said # << >> /\ job.said[1] = "notes_forbidden" /\ VideoOnceAfterNote
  /\ job.note_err \in UnclassifiedNoteSamples =>
       /\ ~Said(job, "notes_forbidden")
       /\ ~Said(job, "duration_ceiling")
       /\ VideoOnceAfterNote

\* C11 witness: the note was refused as forbidden, the user was told why, and
\* the clip went out as a plain video.
C11_Witness ==
  /\ job.note_err = "forbidden_video"
  /\ job.said = << "notes_forbidden" >>
  /\ job.sends = << "note", "video" >>
  /\ job.pc = "done"

\* the sample texts of a video failure that hold "forbidden" and "video"
ForbiddenVideoSamples == {"forbidden_too_long", "forbidden_video"}
OtherVideoErrors == (SendResults \ {"ok"}) \ ForbiddenVideoSamples

\* C12: a send_video failure holding "forbidden" and "video" is followed by
\* exactly one send_document, which an explanation precedes (if the
\* explanation cannot be sent the job ends there); any other send_video
\* failure propagates with no send_document; a send_document failure
\* propagates; the sends are a run of note, video, document in that order,
\* each at most once.
C12_VideoFailureFallsBackToDocument ==
  /\ job.video_err \in ForbiddenVideoSamples =>
       \/ job.raised = "answer" /\ job.pc = "failed" /\ Count(job.sends, "document") = 0
       \/ /\ job.said[Len(job.said)] = "video_forbidden"
          /\ \/ job.pc = "send_document" /\ Count(job.sends, "document") = 0
             \/ /\ Count(job.sends, "document") = 1
                /\ job.sends[Len(job.sends)] = "document"
                /\ job.sends[Len(job.sends) - 1] = "video"
  /\ job.video_err \in OtherVideoErrors =>
       /\ job.pc = "failed"
       /\ job.raised = job.video_err
       /\ job.handler # "returned"
       /\ Count(job.sends, "document") = 0
  /\ job.raised = "document" =>
       /\ job.pc = "failed"
       /\ job.handler # "returned"
       /\ job.sends[Len(job.sends)] = "document"
  /\ job.sends \in { << >>, << "note" >>, << "video" >>, << "note", "video" >>,
                     << "video", "document" >>, << "note", "video", "document" >> }

\* C12 witness: note, video and document were tried in turn and the document
\* went through.
C12_Witness ==
  /\ job.video_err = "forbidden_video"
  /\ job.sends = << "note", "video", "document" >>
  /\ job.said[Len(job.said)] = "video_forbidden"
  /\ job.pc = "done"

\* C13: when can_send_video_notes is False the ladder never sends a note: it
\* tells the user why (if that cannot be sent the job ends there) and starts
\* at send_video; when it is True or None, when there are no permissions and
\* when get_chat raises, the ladder starts with send_video_note.
C13_LadderStart ==
  /\ job.perm = "denied" =>
       /\ Count(job.sends, "note") = 0
       /\ \/ job.raised = "answer" /\ job.sends = << >> /\ job.said = << >>
          \/ /\ job.said # << >> /\ job.said[1] = "notes_forbidden"
             /\ \/ job.pc = "send_video" /\ job.sends = << >>
                \/ job.sends # << >> /\ job.sends[1] = "video"
  /\ job.perm \in {"allowed", "unset", "error"} =>
       \/ job.pc = "send_note" /\ job.sends = << >>
       \/ job.sends # << >> /\ job.sends[1] = "note"

\* C13 witness: the chat forbids notes, the user was told, the video went out
\* without a note having been tried.
C13_Witness ==
  /\ job.perm = "denied"
  /\ job.said = << "notes_forbidden" >>
  /\ job.sends = << "video" >>
  /\ job.pc = "done"

\* ------------------------------------------------------------ the executor

\* the runs of the primary encode, and whether the size-fit pass has run
PrimaryRuns == SelectSeq(conv.runs, LAMBDA run : run.audio_codec # "sizefix")
SizeFixRuns == SelectSeq(conv.runs, LAMBDA run : run.audio_codec = "sizefix")

\* C14: the copy-audio encode runs first; the aac encode runs only after the
\* first one exited nonzero, once and under the same timeout; a second nonzero
\* exit fails the call with ffmpeg's error; a timeout of either attempt fails
\* the call at once; there are at most two primary attempts.
C14_EncodeRetry ==
  LET runs == PrimaryRuns IN
  /\ Len(runs) <= 2
  /\ Len(runs) >= 1 => runs[1].audio_codec = "copy"
  /\ Len(runs) = 2 =>
       /\ runs[1].result = "nonzero"
       /\ runs[2].audio_codec = "aac"
       /\ runs[2].timeout_s = runs[1].timeout_s
  /\ (Len(runs) = 1 /\ runs[1].result = "nonzero") => conv.pc = "second_attempt"
  /\ (Len(runs) = 2 /\ runs[2].result = "nonzero") =>
       conv.pc = "raised" /\ conv.error = "ffmpeg_error"
  /\ \A i \in 1..Len(runs) :
       runs[i].result = "timeout" =>
         /\ conv.pc = "raised"
         /\ conv.error \in {"timeout", "timeout_fallback"}
         /\ Len(conv.runs) = i
  /\ conv.pc \in {"size_check", "size_fix", "returned"} =>
       runs[Len(runs)].result = "ok"

\* C14 witness: the copy-audio attempt exited nonzero and the aac attempt,
\* under the same timeout, succeeded.
C14_Witness ==
  /\ Len(conv.runs) = 2
  /\ conv.runs[1] = [audio_codec |-> "copy", timeout_s |-> 600, result |-> "nonzero"]
  /\ conv.runs[2] = [audio_codec |-> "aac", timeout_s |-> 600, result |-> "ok"]
  /\ conv.pc = "size_check"

\* the size check has been made
SizeChecked ==
  \/ conv.pc \in {"size_fix", "unlink", "rename", "returned"}
  \/ conv.error \in {"sizefix_timeout", "sizefix_error"}

\* C16: the size-fit pass runs if and only if the ceiling is positive and the
\* artifact is strictly larger than the ceiling in bytes (one byte over: yes,
\* exactly at it: no, ceiling <= 0: never), and it runs at most once.
C16_SizeFitTrigger ==
  LET planned == conv.pc = "size_fix" \/ Len(SizeFixRuns) > 0 IN
  /\ Len(SizeFixRuns) <= 1
  /\ planned => SizeChecked
  /\ SizeChecked =>
       /\ conv.size_limit_mb <= 0 => ~planned
       /\ conv.size_limit_mb > 0 =>
            (planned <=> conv.out_size > conv.size_limit_mb * 1024 * 1024)
       /\ (conv.size_limit_mb > 0 /\ Len(SizeFixRuns) = 0) =>
            conv.out_size = conv.artifact_size

\* C16 witness: an artifact one byte over a 12 MiB ceiling goes to the pass.
C16_Witness ==
  /\ conv.pc = "size_fix"
  /\ conv.size_limit_mb = 12
  /\ conv.out_size = 12582913

\* C17: in the size-fit pass the video bitrate is
\* max(300, floor(floor(0.95 * 8 * ceilingBytes) / duration / 1000) - 96) for
\* a duration > 0, hence >= 300; with no duration (0 or both probes failing)
\* it is 1800; a 12 MiB ceiling and 60 s give 1497.
C17_SizeFitBitrate ==
  (conv.pc = "size_fix" \/ Len(SizeFixRuns) > 0) =>
    LET bits == (conv.size_limit_mb * 1024 * 1024 * 8 * 19) \div 20
        raw == bits \div (conv.duration * 100) - 96
    IN /\ conv.duration > 0 => conv.v_k = (IF raw > 300 THEN raw ELSE 300)
       /\ conv.duration > 0 => conv.v_k >= 300
       /\ conv.duration = 0 => conv.v_k = 1800
       /\ (conv.size_limit_mb = 12 /\ conv.duration = 600) => conv.v_k = 1497

\* C17 witness: the pass for a 12 MiB ceiling and a 60 s clip, at 1497 kbit/s.
C17_Witness ==
  /\ conv.pc = "size_fix"
  /\ conv.size_limit_mb = 12
  /\ conv.duration = 600
  /\ conv.v_k = 1497

\* C18 (as claimed): when the size-fit re-encode has replaced the artifact,
\* the executor has measured the artifact a second time before it returns.
C18_FinalSizeRemeasured ==
  (conv.pc = "returned" /\ Len(SizeFixRuns) = 1) => conv.stats >= 2

\* the colour samples that are HDR: the transfer is arib-std-b67 or smpte2084,
\* or the primaries or the matrix hold "2020" (compared in lower case)
HdrSamples == {"pq", "hlg", "pq_upper", "prim2020", "mtx2020"}

ToneMapStages == {"zscale_in", "tonemap", "zscale_out"}

\* C19: the filter chain holds the tone-map stage if and only if the input
\* is HDR; the tone-map stages then stand after the crop and before the
\* scale; the crop is always the first stage.
C19_ToneMapIffHdr ==
  conv.cmd # << >> =>
    LET chain == conv.cmd[1].vf_chain
        hdr == conv.colors \in HdrSamples
        at(stage) == { i \in 1..Len(chain) : chain[i] = stage }
    IN /\ chain[1] = "crop"
       /\ at("crop") = {1}
       /\ Cardinality(at("scale")) = 1
       /\ hdr <=> at("tonemap") # {}
       /\ hdr => \A stage \in ToneMapStages : Cardinality(at(stage)) = 1
       /\ \A i \in 1..Len(chain) :
            chain[i] \in ToneMapStages =>
              /\ hdr
              /\ i > 1
              /\ \A k \in at("scale") : i < k

\* C19 witness: an input that is HDR by its primaries alone, with the
\* tone-map between the crop and the scale.
C19_Witness ==
  /\ conv.colors = "prim2020"
  /\ conv.cmd # << >>
  /\ conv.cmd[1].vf_chain =
       << "crop", "zscale_in", "tonemap", "zscale_out", "scale", "setsar", "format" >>

\* ------------------------------------------------- failures and the handler

\* the failures of the transcode that the claim names
TranscodeFailures == {"encode_timeout", "encode_failed", "sizefix_failed"}

\* C15 (as claimed): after a failed transcode (both encode attempts, a
\* timeout, the size-fix pass) nothing is sent as note, video or document, the
\* conversion counter is not incremented, and, messages to the user being
\* deliverable, the handler ends with the error message to the user.
C15_FailedTranscodeReported ==
  job.raised \in TranscodeFailures =>
    /\ job.sends = << >>
    /\ ~job.conversion_recorded
    /\ (job.handler # "running" /\ ~job.answer_failed) =>
         /\ job.handler = "reported"
         /\ job.error_said # << >>
         /\ job.error_said[Len(job.error_said)] = "processing_error"

\* C20 (as claimed): a raising counters call never changes what becomes of
\* the request: it does not stop it before admission, does not make a
\* delivered job a reported processing error, and does not leave the handler
\* as an exception.
C20_CountersFailureSwallowed ==
  job.counters_failed =>
    /\ job.pc # "stopped"
    /\ job.handler # "escaped"
    /\ ~(job.sends # << >> /\ job.raised = "counters" /\ job.handler = "reported")

\* C21: the declared-size check rejects a media request with "size_limit" if
\* and only if USER_VIDEO_MAX_MB > 0, a size is declared and it is strictly
\* greater than the maximum in bytes: a maximum <= 0 admits every size, a size
\* equal to the maximum is admitted; the rejected request takes no gate and
\* no permit.
C21_SizeCheck ==
  [][ \A r \in ReqIds, lim \in UserLimitMbs, size \in MediaSizes :
        HandleMediaWith(r, lim, size) =>
          LET dup == \/ req[r].group # None /\ GroupOnRecord(req[r].group)
                     \/ MessageOnRecord(req[r].key)
              rejected == req'[r].pc = "done" /\ req'[r].outcome = "size_limit"
          IN ~dup =>
               /\ rejected <=> (lim > 0 /\ size # 0 /\ size > lim * 1024 * 1024)
               /\ (lim <= 0 \/ size = lim * 1024 * 1024) => ~rejected
               /\ rejected =>
                    /\ user_busy_until' = user_busy_until
                    /\ user_locks' = user_locks
                    /\ semaphore' = semaphore
                    /\ sem_waiters' = sem_waiters ]_vars

\* C21 witness: a request rejected for its size while the job of another
\* user holds the only unit, the rejected user's gate never set.
C21_Witness ==
  \E r, q \in ReqIds :
    /\ req[r].pc = "done" /\ req[r].outcome = "size_limit"
    /\ req[q].pc = "convert" /\ req[q].user # req[r].user
    /\ req[r].user \notin DOMAIN user_busy_until
    /\ semaphore = 0

\* C23: while a job is inside the transcode call, the handler of another
\* user's request that has arrived can run its admission checks at once, and
\* the step takes it to its decision: rejected, or through the gate and
\* waiting for or holding a unit (or queued behind its own user's lock).
C23_TranscodeDoesNotBlockAdmission ==
  \A q, r \in ReqIds :
    (req[q].pc = "convert" /\ req[r].pc = "arrived" /\ req[r].user # req[q].user) =>
      ENABLED ( /\ HandleMedia(r) \/ HandleUrl(r)
                /\ req'[r].pc \in {"done", "reject_answer", "wait_lock",
                                   "wait_sem", "download"}
                /\ req'[q] = req[q] )

\* C23 witness: user 2's request is past the gate and queued for a unit while
\* user 1's transcode, holding the only unit, is still running.
C23_Witness ==
  \E q, r \in ReqIds :
    /\ req[q].pc = "convert" /\ req[r].pc = "wait_sem"
    /\ req[r].user # req[q].user
    /\ req[r].user \in DOMAIN user_busy_until
    /\ sem_waiters = << r >>

\* C24 (as claimed): the dedupe applies to URL requests: a URL message whose
\* (chat, message) key belongs to a URL request of the same sender admitted
\* within the TTL is not admitted again. Where the chat has one message key
\* only, every request carries it; no media message has been through the
\* dedupe while _processed_messages is empty, so a job in progress is then
\* the job of a URL message with that key, and it was admitted less than the
\* TTL ago while the clock has not passed Epoch + TTL.
C24_UrlDeduped ==
  [][ \A r, q \in ReqIds :
        ( /\ HandleUrl(r)
          /\ env.keys = {req[r].key}
          /\ processed_messages = << >>
          /\ q # r
          /\ req[q].user = req[r].user
          /\ req[q].pc \in {"wait_sem", "download", "convert", "deliver"}
          /\ now - Epoch <= ProcessedTtl )
        => req'[r].pc \notin {"wait_sem", "download"} ]_vars

\* C25 (as claimed): after every admission call no stale entry is left: no
\* (chat, message) entry older than 180 s, no group entry older than 300 s,
\* no user-gate entry whose busy-until time is past.
C25_NoStaleEntryAfterAdmission ==
  [][ \A r \in ReqIds :
        (HandleMedia(r) \/ HandleUrl(r)) =>
          /\ \A k \in DOMAIN processed_messages' :
               now - processed_messages'[k] <= ProcessedTtl
          /\ \A g \in DOMAIN processed_groups' :
               now - processed_groups'[g] <= GroupsTtl
          /\ \A u \in DOMAIN user_busy_until' : user_busy_until'[u] >= now ]_vars

\* C26 (as claimed): no admission rejection (duplicate group, duplicate
\* message, size limit, rate limit) calls record_error.
C26_RejectionsNotRecorded ==
  \A r \in ReqIds :
    req[r].outcome \in {"dup_group", "dup_msg", "size_limit", "rate_limited"} =>
      ~req[r].error_recorded

\* C22: when a job has ended, on whatever exit path (delivered, rejected for
\* its duration, download failed, encode failed or timed out, size-fix
\* failed, delivery or counters failed), none of its temporary files is left:
\* not the downloaded source, not the artifact, not the size-fix scratch file.
C22_TempFilesRemoved ==
  (job.handler # "running" \/ job.pc = "failed") => job.files = {}

\* C22 witness: a job whose size-fix pass failed after the source, the
\* artifact and the scratch file had all been written, reported to the user
\* with nothing left on disk.
C22_Witness ==
  /\ job.handler = "reported"
  /\ job.raised = "sizefix_failed"
  /\ job.created = {SrcPath, OutPath, SizeFixPath}
  /\ job.files = {}

\* the source's duration, declared by the message or else probed, is over
\* the ceiling
SourceOverCeiling ==
  \/ job.declared # Unknown /\ job.declared[1] > max_duration_s
  \/ job.declared = Unknown /\ job.probed # Unknown /\ job.probed[1] > max_duration_s * 10

\* C29 (as claimed): a job whose source is longer than the ceiling never comes
\* to the call of convert_to_square_video_note and sends nothing: it ends
\* having told the user the duration and the ceiling.
C29_NoTranscodeOverCeiling ==
  SourceOverCeiling =>
    /\ job.pc \notin {"convert", "get_chat", "send_note", "send_video",
                      "send_document", "metrics", "done"}
    /\ OutPath \notin job.created
    /\ job.sends = << >>

\* C30 (as claimed): the code recorded for a failed transcode tells the
\* classes apart: ffmpeg_timeout for an encode attempt that timed out,
\* ffmpeg_error for a nonzero exit and for a failed size-fix pass.
C30_TranscodeFailureCodes ==
  job.error_recorded =>
    /\ job.raised = "encode_timeout" => job.error_code = "ffmpeg_timeout"
    /\ job.raised \in {"encode_failed", "sizefix_failed"} => job.error_code = "ffmpeg_error"

\* C27: the normalization stage (colorspace) is in the filter chain if and
\* only if the limited range is forced and the source is not HDR; no chain
\* holds both the tone-map and the normalization; the normalization, when it
\* is there, stands once, after the scale and the square-pixel stage and
\* before the pixel format.
C27_ColorspaceIffForcedAndSdr ==
  build.pc = "built" =>
    LET chain == build.vf_chain
        hdr == build.args.source_colors \in HdrSamples
        at(stage) == { i \in 1..Len(chain) : chain[i] = stage }
    IN /\ at("colorspace") # {} <=> (build.args.force_limited_range /\ ~hdr)
       /\ ~(at("tonemap") # {} /\ at("colorspace") # {})
       /\ Cardinality(at("colorspace")) <= 1
       /\ \A i \in at("colorspace") :
            /\ \E k \in at("scale") : k < i
            /\ \E k \in at("setsar") : k < i
            /\ \A k \in at("scale") \cup at("setsar") : k < i
            /\ \E k \in at("format") : i < k
            /\ \A k \in at("format") : i < k

\* C27 witness: the limited range forced on a tagged SDR source with the
\* enhancement on: the normalization between the square-pixel stage and the
\* adjustment stage.
C27_Witness ==
  /\ build.pc = "built"
  /\ build.args.force_limited_range
  /\ build.args.source_colors = "sdr"
  /\ build.vf_chain = << "crop", "scale", "setsar", "colorspace", "eq", "format" >>

\* C28 (as claimed): with the enhancement on, each of the four parameters
\* written into the adjustment stage is non-negative, and gamma is greater
\* than zero, whatever was supplied.
C28_EqPartsNonNegative ==
  (build.pc = "built" /\ build.args.enhance_saturation) =>
    /\ build.eq # << >>
    /\ build.eq[1].saturation >= 0
    /\ build.eq[1].contrast >= 0
    /\ build.eq[1].brightness >= 0
    /\ build.eq[1].gamma > 0

\* C28 (amended): with the enhancement on, the saturation and the contrast
\* written are non-negative (a value below 0 is written as 0) and the gamma
\* written is at least 0.1; the brightness is written as it was supplied
\* (rounded to three decimals), a negative one included. Without the
\* enhancement nothing is written.
C28_EqPartsClampedButBrightness ==
  build.pc = "built" =>
    IF build.args.enhance_saturation
    THEN /\ build.eq # << >>
         /\ build.eq[1].saturation >= 0
         /\ build.eq[1].contrast >= 0
         /\ build.eq[1].gamma >= 100
         /\ build.args.saturation < 0 => build.eq[1].saturation = 0
         /\ build.args.contrast < 0 => build.eq[1].contrast = 0
         /\ build.eq[1].brightness * 10 - build.args.brightness \in -5..5
         /\ Cardinality({ i \in 1..Len(build.vf_chain) : build.vf_chain[i] = "eq" }) = 1
    ELSE /\ build.eq = << >>
         /\ \A i \in 1..Len(build.vf_chain) : build.vf_chain[i] # "eq"

\* C28 witness: all four parameters supplied as -0.5: saturation and contrast
\* are written as 0, gamma as 0.1, brightness as -0.5.
C28_Witness ==
  /\ build.pc = "built"
  /\ build.args.enhance_saturation
  /\ build.args.saturation < 0 /\ build.args.contrast < 0
  /\ build.args.brightness < 0 /\ build.args.gamma < 0
  /\ build.eq = << [saturation |-> 0, contrast |-> 0, brightness |-> -500, gamma |-> 100] >>

\* C31: what an earlier check has recorded stays when a later check rejects.
\* A media message that is not a duplicate of its group leaves the group id
\* on record whatever becomes of it (duplicate message, size limit, the gate);
\* one that is not a duplicate message leaves its (chat, message) key on
\* record after a size-limit rejection and after the gate; no step of any
\* handler, the rate-limit reply included, takes a record away before its TTL
\* has run out; and an item of a group on record is rejected as a duplicate
\* of the group and takes neither gate nor unit.
C31_RecordsNotRolledBack ==
  [][ /\ \A r \in ReqIds, lim \in UserLimitMbs, size \in MediaSizes :
           HandleMediaWith(r, lim, size) =>
             LET g == req[r].group
                 dupG == g # None /\ GroupOnRecord(g)
                 dupM == MessageOnRecord(req[r].key)
             IN /\ g # None => g \in DOMAIN processed_groups'
                /\ (~dupG) => req[r].key \in DOMAIN processed_messages'
                /\ dupG =>
                     /\ req'[r].pc = "done" /\ req'[r].outcome = "dup_group"
                     /\ user_busy_until' = user_busy_until
                     /\ semaphore' = semaphore /\ sem_waiters' = sem_waiters
      /\ \A g \in DOMAIN processed_groups :
           GroupOnRecord(g) => g \in DOMAIN processed_groups'
      /\ \A k \in DOMAIN processed_messages :
           MessageOnRecord(k) => k \in DOMAIN processed_messages' ]_vars

\* C31 witness: an item of the group rejected as a duplicate of the group
\* although nothing of the burst was admitted: the first item, which recorded
\* the group and its own key, was rejected for its size, so no gate is set.
C31_Witness ==
  \E r \in ReqIds :
    /\ req[r].pc = "done" /\ req[r].outcome = "dup_group"
    /\ DOMAIN processed_groups # {}
    /\ DOMAIN processed_messages # {}
    /\ user_busy_until = << >>
    /\ semaphore = N /\ sem_waiters = << >>
    /\ \A q \in ReqIds : q # r => req[q].pc = "idle"

\* C33: the dedupe window is anchored to the first recorded arrival.  No step
\* changes the timestamp stored for a message key or a group id that is on
\* record within its TTL, so a rejected duplicate refreshes nothing.  A media
\* message whose group id is on file with an age of exactly GroupsTtl is still
\* rejected as dup_group, and one whose group id is on file with a greater
\* age is not: the id is recorded again with the current time.  The same
\* holds for the (chat, message) key with ProcessedTtl, for a message that is
\* not rejected for its group.
C33_WindowAnchoredToFirstArrival ==
  [][ /\ \A k \in DOMAIN processed_messages :
           MessageOnRecord(k) =>
             /\ k \in DOMAIN processed_messages'
             /\ processed_messages'[k] = processed_messages[k]
      /\ \A g \in DOMAIN processed_groups :
           GroupOnRecord(g) =>
             /\ g \in DOMAIN processed_groups'
             /\ processed_groups'[g] = processed_groups[g]
      /\ \A r \in ReqIds :
           HandleMedia(r) =>
             LET g == req[r].group
                 k == req[r].key
                 gOnFile == g # None /\ g \in DOMAIN processed_groups
                 kOnFile == k \in DOMAIN processed_messages
                 dupG == g # None /\ GroupOnRecord(g)
             IN /\ (gOnFile /\ now - processed_groups[g] = GroupsTtl) =>
                      /\ req'[r].pc = "done"
                      /\ req'[r].outcome = "dup_group"
                /\ (gOnFile /\ now - processed_groups[g] > GroupsTtl) =>
                      /\ ~(req'[r].pc = "done" /\ req'[r].outcome = "dup_group")
                      /\ processed_groups'[g] = now
                /\ (~dupG /\ kOnFile /\ now - processed_messages[k] = ProcessedTtl) =>
                      /\ req'[r].pc = "done"
                      /\ req'[r].outcome = "dup_msg"
                /\ (~dupG /\ kOnFile /\ now - processed_messages[k] > ProcessedTtl) =>
                      /\ ~(req'[r].pc = "done" /\ req'[r].outcome = "dup_msg")
                      /\ processed_messages'[k] = now
    ]_vars

\* a message has arrived whose key and whose group id are both on file and
\* older than their TTLs, and handling it records both again with the
\* current time and admits the message at the gate
C33_Witness ==
  \E r \in ReqIds :
    /\ req[r].pc = "arrived"
    /\ ~req[r].url
    /\ req[r].group # None
    /\ req[r].group \in DOMAIN processed_groups
    /\ now - processed_groups[req[r].group] > GroupsTtl
    /\ req[r].key \in DOMAIN processed_messages
    /\ now - processed_messages[req[r].key] > ProcessedTtl
    /\ ENABLED ( /\ HandleMedia(r)
                 /\ processed_groups'[req[r].group] = now
                 /\ processed_messages'[req[r].key] = now
                 /\ req[r].user \in DOMAIN user_busy_until'
                 /\ user_busy_until'[req[r].user] = BusyUntilAfterAdmit(now) )

\* C34 (as claimed): the size-fit pass re-encodes the artifact, never the
\* source, into the scratch path, and replaces the artifact atomically: once
\* the primary encode has written the artifact, at no step up to the
\* executor's return is the artifact path without a file, and after a
\* size-fit re-encode that failed or timed out the artifact path still holds
\* the oversized artifact that was measured.
C34_ArtifactReplacedAtomically ==
  /\ \A i \in 1..Len(SizeFixRuns) :
       /\ SizeFixRuns[i].input = "output_path"
       /\ SizeFixRuns[i].output = "tmp_path"
  /\ conv.pc \in {"size_check", "size_fix", "unlink", "rename", "returned"} =>
       "output_path" \in conv.files
  /\ conv.error \in {"sizefix_timeout", "sizefix_error"} =>
       /\ "output_path" \in conv.files
       /\ conv.artifact_size = conv.out_size
       /\ conv.out_size > conv.size_limit_mb * 1024 * 1024

\* the size-fit re-encode has succeeded, the artifact has been unlinked and
\* the scratch file is not yet renamed onto it
C34_ArtifactPathEmpty ==
  /\ conv.pc = "rename"
  /\ Len(SizeFixRuns) = 1
  /\ SizeFixRuns[1].result = "ok"
  /\ conv.files = {"tmp_path"}

\* what the claim says apart from the atomic replacement: the input and the
\* output of the re-encode, the artifact at its path at every step but the
\* one between unlink and rename, and the artifact left as it was measured
\* by a re-encode that failed or timed out
C34_ArtifactKeptButBetweenUnlinkAndRename ==
  /\ \A i \in 1..Len(SizeFixRuns) :
       /\ SizeFixRuns[i].input = "output_path"
       /\ SizeFixRuns[i].output = "tmp_path"
  /\ conv.pc \in {"size_check", "size_fix", "unlink", "returned"} =>
       "output_path" \in conv.files
  /\ conv.pc = "rename" => conv.files = {"tmp_path"}
  /\ conv.error \in {"sizefix_timeout", "sizefix_error"} =>
       /\ "output_path" \in conv.files
       /\ conv.artifact_size = conv.out_size
       /\ conv.out_size > conv.size_limit_mb * 1024 * 1024

\* a size-fit re-encode was killed by the timeout and left a part of its
\* output at the scratch path: the oversized artifact is still in place
C34_FailedPassKeepsArtifact ==
  /\ conv.pc = "raised"
  /\ conv.error = "sizefix_timeout"
  /\ conv.files = {"output_path", "tmp_path"}
  /\ conv.artifact_size = 12582913

\* C32: every request that has passed the per-user gate gets a concurrency
\* unit in the end and gives it back in the end, given that downloads,
\* transcodes and deliveries terminate.  The capacity and N are at least 1; a
\* request that finds no unit free is queued, not rejected; the lock of a user
\* is held only by a handler that is answering a rate-limit rejection, never
\* by one that waits for a unit; and whenever a request waits for a unit, the
\* unit is free for the head of the queue or some job holds one and can go on.
C32_AdmittedJobsRunAndRelease ==
  /\ [](/\ Capacity(max_concurrency) >= 1
        /\ N >= 1
        /\ semaphore \in 0..N
        /\ \A r \in ReqIds :
             req[r].pc = "wait_sem" =>
               /\ req[r].outcome = "none"
               /\ \E i \in 1..Len(sem_waiters) : sem_waiters[i] = r
        /\ \A u \in DOMAIN user_locks :
             user_locks[u].locked =>
               \E q \in ReqIds : req[q].pc = "reject_answer" /\ req[q].user = u
        /\ sem_waiters # << >> =>
             \/ ENABLED SemAcquired(Head(sem_waiters))
             \/ \E q \in Holding :
                  ENABLED (Download(q) \/ ConvertDone(q) \/ DeliverDone(q)))
  /\ \A r \in ReqIds :
       /\ (req[r].pc = "wait_sem") ~> (r \in Holding)
       /\ (r \in Holding) ~> (req[r].pc = "done" /\ semaphore > 0)

\* one handler holds the only unit and its job is under way, the other has
\* passed the gate and is queued for the unit, with no lock held
C32_Witness ==
  \E r, q \in ReqIds :
    /\ N = 1
    /\ semaphore = 0
    /\ req[q].pc = "convert"
    /\ req[r].pc = "wait_sem"
    /\ sem_waiters = << r >>
    /\ \A u \in DOMAIN user_locks : ~user_locks[u].locked

====
